---- MODULE Spec2Model ----
(***************************************************************************)
(* Verification model of ssl-py-tools:                                     *)
(*   - the Action Dispatcher, threaded and trio variants                   *)
(*     (cmmus_gym/actions/threaded.py, actions/trio.py, actions/core.py),  *)
(*   - the Observation Cache, threaded and trio variants                   *)
(*     (cmmus_gym/observations/threaded.py, observations/trio.py),         *)
(*   - the multicast receiver with fan-out                                 *)
(*     (vision_filter/net/ssl_vision_client.py, vision_filter/util.py).    *)
(* Each subsystem has its own specification (SpecDispatcher, SpecCache,    *)
(* SpecFanout); the variables of the other subsystems stay at their        *)
(* initial values.                                                         *)
(***************************************************************************)
EXTENDS Integers, Sequences, FiniteSets, TLC

\* ------------------------------------------------------------------ bounds
\* Number of set_action / reset_action calls explored.
MaxCalls == 2
\* Number of dispatcher ticks explored.
MaxTicks == 2
\* Number of datagrams (threaded) or channel frames (trio) the cache receives.
MaxDatagrams == 3
\* Number of cache reads (get_latest / clone) explored.
MaxReads == 2
\* Number of datagrams the fan-out client receives.
MaxFrames == 2
\* Number of channels subscribers create.
MaxChannels == 2
\* Number of statistics() calls explored.
MaxStatisticsCalls == 1

\* ------------------------------------------------------- Action Dispatcher
VARIABLES
    actions,        \* self._actions: dict robot_id -> RawMovementAction, in insertion order
    actions_lock,   \* self._actions_lock: "free" or the thread holding it
    stats,          \* self._stats: ActionClientStats
    stop_event,     \* self._stop_event
    thread_state,   \* Thread lifecycle: "Idle", "Started" (start() called, run() not yet begun), "Running", "Stopped"
    future,         \* command_stream_future: "none", "active", "cancelled", "done"
    gen_pc,         \* position of the __generate_actions generator
    gen_i,          \* index of the dict entry the generator's for loop is at
    action_message, \* the RobotCommands message being built by the generator
    caller_pc,      \* per caller thread: position inside set_action / reset_action
    sent,           \* history: the packets handed to the command stream, in order
    snap,           \* history: what the buffer was when the current tick took the lock
    last_write,     \* history: per robot the action of its latest set_action since the latest reset_action
    writes,         \* history: number of buffer writes (set_action / reset_action critical sections) so far
    last_op,        \* history: the latest buffer write and the thread state it was made in
    variant,        \* which implementation runs: "threaded" (actions/threaded.py) or "trio" (actions/trio.py)
    trio            \* the trio RawMovementActionClient: its fields, its tasks' positions, its history

threaded_vars == <<actions, actions_lock, stats, stop_event, thread_state, future,
                   gen_pc, gen_i, action_message, caller_pc, sent, snap,
                   last_write, writes, last_op, variant>>

dispatcher_vars == <<actions, actions_lock, stats, stop_event, thread_state, future,
                     gen_pc, gen_i, action_message, caller_pc, sent, snap,
                     last_write, writes, last_op, variant, trio>>

\* ------------------------------------------------------- Observation Cache
VARIABLES
    cache_variant,  \* which implementation runs: "threaded" (observations/threaded.py) or "trio" (observations/trio.py)
    detections,     \* self.__detections: dict camera_id -> SSL_DetectionFrame object (its index in heap)
    heap,           \* the SSL_DetectionFrame objects the cache has created, with their current content
    cache_stats,    \* self._stats / self.__stats: ObservationStats
    cache_stop,     \* self._stop_event (threaded)
    recv_pc,        \* position of the receive loop run()
    datagram,       \* what the receive loop has received and is working on
    cache_lock,     \* trio: self.__detection_lock, "free" or the task holding it
    reader_pc,      \* trio: per reading task, its position inside clone()
    num_datagrams,  \* history: number of datagrams / channel frames received so far
    malformed_seen, \* history: number of datagrams that failed to decode
    updated,        \* history: per camera, the latest frame the loop stored since the latest read
    reads           \* history: what each read returned

cache_vars == <<cache_variant, detections, heap, cache_stats, cache_stop, recv_pc, datagram,
                cache_lock, reader_pc, num_datagrams, malformed_seen, updated, reads>>

\* ------------------------------------------- Multicast receiver with fan-out
VARIABLES
    fan_pc,              \* position of SSLVisionClient.run / recv_message
    wrapper_packet,      \* the datagram recv_message is working on
    detection_channels,  \* self.__detection_channels: list of send channels (indices into channels)
    geometry_channels,   \* self.__geometry_channels
    channels,            \* every memory channel opened by create_*_channel, with its subscriber's end
    send_tasks,          \* run_all: per index of the registry, the state of its send task in the round in progress
    fan_count,           \* history: number of datagrams received so far
    removed              \* history: the channels deleted from a registry so far

fanout_vars == <<fan_pc, wrapper_packet, detection_channels, geometry_channels, channels,
                 send_tasks, fan_count, removed>>

\* ------------------------------------------------------ Statistics accessor
VARIABLE
    returned        \* what a caller of statistics() holds: a copy of the
                    \* statistics struct, or a reference to the live struct

observer_vars == <<returned>>

\* ------------------------------------------------- Functions and accessors
VARIABLE
    wheel,          \* one wheel velocity on its way from set_action to the wire
    send_failure,   \* the failure the command stream has reported: "none",
                    \* "transient" or "permanent"
    filtering,      \* one call of the environment's _filter_raw_observations
    env,            \* the gym environment above a receiver and a dispatcher
    params,         \* the threaded environment's validated parameters
    geom,           \* the visualizer's field geometry, its lock and its callers
    ball,           \* the ball filter: its friction parameters, state and latest control input
    robot,          \* the robot filter: the numpy build, and the latest residual or mean call with its result
    feed,           \* the trio cache run() on its receive channel, with the senders of that channel
    periodic,       \* the trio dispatcher run against a clock: its buffer, its runs and their streams
    buffer,         \* the threaded command buffer with the action objects its callers hold
    locks           \* the two locks of a threaded component and where each of its threads is in its operation

function_vars == <<wheel, send_failure, filtering, env, params, geom, ball, robot, feed, periodic, buffer, locks>>

\* The variables of the dispatcher, the cache, the fan-out and the accessor.
system_vars == <<dispatcher_vars, cache_vars, fanout_vars, observer_vars>>

vars == <<dispatcher_vars, cache_vars, fanout_vars, observer_vars, function_vars>>

\* Robot ids callers pass to set_action.
RobotIds == {0, 1}
\* Concurrent caller threads of set_action / reset_action.
Callers == {"c1", "c2"}

\* Wheel velocities in hundredths (1 is 0.01, 100 is 1.0, 150 is 1.5): the
\* arrays callers pass; set_action does not restrict them to [-1, 1].
WheelVelocityChoices == { <<1, 1, 1, 1>>, <<150, -150, 99, -99>> }

RawMovementAction == [robot_id : RobotIds, wheel_velocities : WheelVelocityChoices]

\* A robot id below zero, and the actions a caller can build with it: the
\* dataclass takes any int.
NegativeRobotId == -1
InvalidActions == [robot_id : {NegativeRobotId}, wheel_velocities : {<<1, 1, 1, 1>>}]

\* Optional values: None is the empty tuple, a present value x is <<x>>.
None == <<>>
Some(x) == <<x>>

\* time.time(): time is measured in elapsed dispatcher periods.
Now == stats.num_sent

\* numpy float -> int8 conversion of an in-range value: truncation toward zero.
TruncDiv(n, d) == IF n >= 0 THEN n \div d ELSE -((-n) \div d)

\* A buggy encoder that does not clamp.
ClipNothing(x, lo, hi) == x

\* np.clip(x, lo, hi)
Clip(x, lo, hi) == IF x < lo THEN lo ELSE IF x > hi THEN hi ELSE x

\* astype(np.int8): two's complement wrap of the truncated value.
AsInt8(x) == ((x + 128) % 256) - 128

\* np.clip(127 * v, -127, 127).astype(np.int8) for one component v (in hundredths).
EncodeWheel(v) ==
    LET scaled == 127 * v
        clipped == Clip(scaled, -127 * 100, 127 * 100)
    IN AsInt8(TruncDiv(clipped, 100))

EncodeVelocities(w) == [k \in DOMAIN w |-> EncodeWheel(w[k])]

\* RobotCommands(): a message with no commands.
EmptyMessage == <<>>

\* RawMovementAction.to_proto: message.commands[robot_id].wheel_velocity[:] = ...
to_proto(a, message) ==
    [r \in (DOMAIN message) \cup {a.robot_id} |->
        IF r = a.robot_id THEN EncodeVelocities(a.wheel_velocities) ELSE message[r]]

\* Index of robot_id's entry in the dict, 0 when absent.
KeyIndex(d, r) ==
    IF \E i \in DOMAIN d : d[i].robot_id = r
    THEN CHOOSE i \in DOMAIN d : d[i].robot_id = r
    ELSE 0

\* A buggy store: keeps the existing entry of the robot (first write wins).
StoreActionKeepFirst(d, a) ==
    IF KeyIndex(d, a.robot_id) = 0 THEN Append(d, a) ELSE d

\* self._actions[action.robot_id] = action
StoreAction(d, a) ==
    IF KeyIndex(d, a.robot_id) = 0
    THEN Append(d, a)
    ELSE [d EXCEPT ![KeyIndex(d, a.robot_id)] = a]

\* A buggy clear: leaves the oldest entry in the buffer.
ClearActionsKeepOne(d) == IF Len(d) > 0 THEN <<d[1]>> ELSE d

\* self._actions.clear()
ClearActions(d) == <<>>

\* A buggy set_action that does not take the lock.
SetActionUnlocked == TRUE

\* with self._actions_lock: (set_action): the lock can be taken
SetActionLockFree == actions_lock = "free"

\* with self._actions_lock: (reset_action): the lock can be taken
ResetActionLockFree == actions_lock = "free"

NoWrites == [r \in RobotIds |-> None]
NoOp == [op |-> "none", state |-> "none"]

ThreadedInit ==
    /\ actions = <<>>
    /\ actions_lock = "free"
    /\ stats = [num_sent |-> 0, last_set_action_time |-> None, last_action_sent_time |-> None]
    /\ stop_event = FALSE
    /\ thread_state = "Idle"
    /\ future = "none"
    /\ gen_pc = "none"
    /\ gen_i = 0
    /\ action_message = EmptyMessage
    /\ caller_pc = [c \in Callers |-> "idle"]
    /\ sent = <<>>
    /\ snap = [writes |-> 0, last_write |-> NoWrites, actions |-> <<>>, last_op |-> NoOp]
    /\ last_write = NoWrites
    /\ writes = 0
    /\ last_op = NoOp

\* set_action, first critical section: the buffer write.
SetActionWrite(c, a) ==
    /\ variant = "threaded"
    /\ caller_pc[c] = "idle"
    /\ writes < MaxCalls
    /\ SetActionLockFree
    /\ actions' = StoreAction(actions, a)
    /\ last_write' = [last_write EXCEPT ![a.robot_id] = Some(a)]
    /\ writes' = writes + 1
    /\ last_op' = [op |-> "set", state |-> "none"]
    /\ caller_pc' = [caller_pc EXCEPT ![c] = "stats"]
    /\ UNCHANGED <<variant, trio, actions_lock, stats, stop_event, thread_state, future, gen_pc, gen_i,
                   action_message, sent, snap>>
    /\ UNCHANGED <<cache_vars, fanout_vars, observer_vars, function_vars>>

\* reset_action, first critical section: the buffer clear.
ResetActionClear(c) ==
    /\ variant = "threaded"
    /\ caller_pc[c] = "idle"
    /\ writes < MaxCalls
    /\ ResetActionLockFree
    /\ actions' = ClearActions(actions)
    /\ last_write' = NoWrites
    /\ writes' = writes + 1
    /\ last_op' = [op |-> "reset", state |-> thread_state]
    /\ caller_pc' = [caller_pc EXCEPT ![c] = "stats"]
    /\ UNCHANGED <<variant, trio, actions_lock, stats, stop_event, thread_state, future, gen_pc, gen_i,
                   action_message, sent, snap>>
    /\ UNCHANGED <<cache_vars, fanout_vars, observer_vars, function_vars>>

\* set_action / reset_action, second critical section: last_set_action_time.
CallerStats(c) ==
    /\ variant = "threaded"
    /\ caller_pc[c] = "stats"
    /\ stats' = [stats EXCEPT !.last_set_action_time = Some(Now)]
    /\ caller_pc' = [caller_pc EXCEPT ![c] = "idle"]
    /\ UNCHANGED <<variant, trio, actions, actions_lock, stop_event, thread_state, future, gen_pc, gen_i,
                   action_message, sent, snap, last_write, writes, last_op>>
    /\ UNCHANGED <<cache_vars, fanout_vars, observer_vars, function_vars>>

\* A buggy thread that can be started again after it has stopped.
StartAllowedAgain == thread_state \in {"Idle", "Stopped"}

\* Thread.start(): a thread can be started once.
StartAllowed == thread_state = "Idle"

\* Thread.start(): the thread is launched; start() returns to the caller
\* whether or not run() has executed its first statement.
Start ==
    /\ variant = "threaded"
    /\ StartAllowed
    /\ thread_state' = "Started"
    /\ UNCHANGED <<variant, trio, actions, actions_lock, stats, stop_event, future, gen_pc, gen_i,
                   action_message, caller_pc, sent, snap, last_write, writes, last_op>>
    /\ UNCHANGED <<cache_vars, fanout_vars, observer_vars, function_vars>>

\* The head of run(): clear the stop event, create the generator and hand it
\* to the command stream.
RunBegin ==
    /\ variant = "threaded"
    /\ thread_state = "Started"
    /\ thread_state' = "Running"
    /\ stop_event' = FALSE
    /\ future' = "active"
    /\ gen_pc' = "check"
    /\ UNCHANGED <<variant, trio, actions, actions_lock, stats, gen_i, action_message, caller_pc,
                   sent, snap, last_write, writes, last_op>>
    /\ UNCHANGED <<cache_vars, fanout_vars, observer_vars, function_vars>>

\* stop(), called after start()
Stop ==
    /\ variant = "threaded"
    /\ thread_state \in {"Started", "Running"}
    /\ ~stop_event
    /\ stop_event' = TRUE
    /\ UNCHANGED <<variant, trio, actions, actions_lock, stats, thread_state, future, gen_pc, gen_i,
                   action_message, caller_pc, sent, snap, last_write, writes, last_op>>
    /\ UNCHANGED <<cache_vars, fanout_vars, observer_vars, function_vars>>

\* __generate_actions: while not self._stop_event.is_set(), then
\* action_message = RobotCommands() and the lock is taken.
GenCheck ==
    /\ variant = "threaded"
    /\ gen_pc = "check"
    /\ future = "active"
    /\ IF stop_event
       THEN /\ gen_pc' = "done"
            /\ UNCHANGED <<variant, trio, actions_lock, gen_i, action_message, snap>>
       ELSE /\ stats.num_sent < MaxTicks
            /\ actions_lock = "free"
            /\ actions_lock' = "generator"
            /\ action_message' = EmptyMessage
            /\ gen_i' = 1
            /\ snap' = [writes |-> writes, last_write |-> last_write,
                        actions |-> actions, last_op |-> last_op]
            /\ gen_pc' = "locked"
    /\ UNCHANGED <<variant, trio, actions, stats, stop_event, thread_state, future, caller_pc,
                   sent, last_write, writes, last_op>>
    /\ UNCHANGED <<cache_vars, fanout_vars, observer_vars, function_vars>>

\* for command in self._actions.values(): command.to_proto(action_message)
GenEncode ==
    /\ variant = "threaded"
    /\ gen_pc = "locked"
    /\ gen_i <= Len(actions)
    /\ action_message' = to_proto(actions[gen_i], action_message)
    /\ gen_i' = gen_i + 1
    /\ UNCHANGED <<variant, trio, actions, actions_lock, stats, stop_event, thread_state, future, gen_pc,
                   caller_pc, sent, snap, last_write, writes, last_op>>
    /\ UNCHANGED <<cache_vars, fanout_vars, observer_vars, function_vars>>

\* end of the for loop: the lock is released.
GenRelease ==
    /\ variant = "threaded"
    /\ gen_pc = "locked"
    /\ gen_i > Len(actions)
    /\ actions_lock' = "free"
    /\ gen_pc' = "stats"
    /\ UNCHANGED <<variant, trio, actions, stats, stop_event, thread_state, future, gen_i, action_message,
                   caller_pc, sent, snap, last_write, writes, last_op>>
    /\ UNCHANGED <<cache_vars, fanout_vars, observer_vars, function_vars>>

\* with self._stats_lock: num_sent += 1; last_action_sent_time = time.time()
\* A buggy bookkeeping that builds a new statistics struct on every tick.
StatsAfterSendFresh(s) ==
    [num_sent |-> 1, last_set_action_time |-> None, last_action_sent_time |-> Some(Now)]

\* self._stats.num_sent += 1; self._stats.last_action_sent_time = time.time()
StatsAfterSend(s) == [s EXCEPT !.num_sent = @ + 1, !.last_action_sent_time = Some(Now)]

GenStats ==
    /\ variant = "threaded"
    /\ gen_pc = "stats"
    /\ stats' = StatsAfterSend(stats)
    /\ gen_pc' = "yield"
    /\ UNCHANGED <<variant, trio, actions, actions_lock, stop_event, thread_state, future, gen_i,
                   action_message, caller_pc, sent, snap, last_write, writes, last_op>>
    /\ UNCHANGED <<cache_vars, fanout_vars, observer_vars, function_vars>>

\* yield action_message: the stream transmits the message while the call is
\* active (the generator then sleeps out the period and is back at the head
\* of its loop); a cancelled call no longer consumes the generator.
GenYield ==
    /\ variant = "threaded"
    /\ gen_pc = "yield"
    /\ IF future = "active"
       THEN /\ sent' = Append(sent, [message |-> action_message, snap |-> snap])
            /\ gen_pc' = "check"
       ELSE /\ gen_pc' = "done"
            /\ UNCHANGED sent
    /\ UNCHANGED <<variant, trio, actions, actions_lock, stats, stop_event, thread_state, future, gen_i,
                   action_message, caller_pc, snap, last_write, writes, last_op>>
    /\ UNCHANGED <<cache_vars, fanout_vars, observer_vars, function_vars>>

\* the command stream call completes once the generator is exhausted.
FutureDone ==
    /\ variant = "threaded"
    /\ future = "active"
    /\ gen_pc = "done"
    /\ future' = "done"
    /\ UNCHANGED <<variant, trio, actions, actions_lock, stats, stop_event, thread_state, gen_pc, gen_i,
                   action_message, caller_pc, sent, snap, last_write, writes, last_op>>
    /\ UNCHANGED <<cache_vars, fanout_vars, observer_vars, function_vars>>

\* run(): the wait loop sees the stop event and cancels the stream call
\* (cancel() may fail: the call then goes on consuming the generator).
RunCancel ==
    /\ variant = "threaded"
    /\ thread_state = "Running"
    /\ stop_event
    /\ future = "active"
    /\ \E ok \in BOOLEAN :
         future' = IF ok THEN "cancelled" ELSE future
    /\ thread_state' = "Stopped"
    /\ UNCHANGED <<variant, trio, actions, actions_lock, stats, stop_event, gen_pc, gen_i, action_message,
                   caller_pc, sent, snap, last_write, writes, last_op>>
    /\ UNCHANGED <<cache_vars, fanout_vars, observer_vars, function_vars>>

\* run(): the wait loop sees the stream call done and returns.
RunExit ==
    /\ variant = "threaded"
    /\ thread_state = "Running"
    /\ future = "done"
    /\ thread_state' = "Stopped"
    /\ UNCHANGED <<variant, trio, actions, actions_lock, stats, stop_event, future, gen_pc, gen_i,
                   action_message, caller_pc, sent, snap, last_write, writes, last_op>>
    /\ UNCHANGED <<cache_vars, fanout_vars, observer_vars, function_vars>>


\* ------------------------------------------------ Action Dispatcher (trio)
\* The trio client keeps the outgoing RobotCommands message itself as its
\* buffer; run() sends it under the lock that set_action and reset_action take.
TrioInit ==
    [action_message |-> EmptyMessage,  \* self._action_message
     lock |-> "free",                  \* self._action_message_lock: "free" or the task holding it
     stats |-> [num_sent |-> 0, last_set_action_time |-> None, last_action_sent_time |-> None],
     run_pc |-> "idle",                \* position of run(): idle, period, locked, sending
     task_pc |-> [c \in Callers |-> "idle"],   \* per calling task: idle, set, reset
     pending |-> [c \in Callers |-> None],     \* the action a task inside set_action holds
     sent |-> <<>>,                    \* history: the messages sent on the stream, with the buffer at lock time
     snap |-> EmptyMessage,            \* history: the buffer when run() took the lock
     writes |-> 0]                     \* history: number of set_action / reset_action calls

\* async with self._action_message_lock: (set_action, reset_action)
TrioSetActionLockFree == trio.lock = "free"

\* run(): the command stream is opened and the periodic loop entered.
TrioRun ==
    /\ variant = "trio"
    /\ trio.run_pc = "idle"
    /\ trio' = [trio EXCEPT !.run_pc = "period"]
    /\ UNCHANGED threaded_vars
    /\ UNCHANGED <<cache_vars, fanout_vars, observer_vars, function_vars>>

\* run(): a period elapses and the lock is taken.
TrioTickAcquire ==
    /\ variant = "trio"
    /\ trio.run_pc = "period"
    /\ Len(trio.sent) < MaxTicks
    /\ trio.lock = "free"
    /\ trio' = [trio EXCEPT !.run_pc = "locked", !.lock = "run", !.snap = trio.action_message]
    /\ UNCHANGED threaded_vars
    /\ UNCHANGED <<cache_vars, fanout_vars, observer_vars, function_vars>>

\* await stream.send_message(self._action_message): the message is
\* serialised and written to the stream, with the lock held.
TrioTickSend ==
    /\ variant = "trio"
    /\ trio.run_pc = "locked"
    /\ trio' = [trio EXCEPT !.run_pc = "sending",
                            !.sent = Append(@, [message |-> trio.action_message,
                                                snap |-> trio.snap])]
    /\ UNCHANGED threaded_vars
    /\ UNCHANGED <<cache_vars, fanout_vars, observer_vars, function_vars>>

\* send_message returns: the lock is released and last_action_sent_time set.
TrioTickRelease ==
    /\ variant = "trio"
    /\ trio.run_pc = "sending"
    /\ trio' = [trio EXCEPT !.run_pc = "period", !.lock = "free",
                            !.stats.last_action_sent_time = Some(Len(trio.sent))]
    /\ UNCHANGED threaded_vars
    /\ UNCHANGED <<cache_vars, fanout_vars, observer_vars, function_vars>>

\* set_action: the task takes the lock.
TrioSetActionAcquire(c, a) ==
    /\ variant = "trio"
    /\ trio.task_pc[c] = "idle"
    /\ trio.writes < MaxCalls
    /\ TrioSetActionLockFree
    /\ trio' = [trio EXCEPT !.task_pc[c] = "set", !.pending[c] = Some(a),
                            !.lock = IF trio.lock = "free" THEN c ELSE @,
                            !.writes = @ + 1]
    /\ UNCHANGED threaded_vars
    /\ UNCHANGED <<cache_vars, fanout_vars, observer_vars, function_vars>>

\* set_action: action.to_proto(self._action_message), the lock is released
\* and last_set_action_time set.
TrioSetActionWrite(c) ==
    /\ variant = "trio"
    /\ trio.task_pc[c] = "set"
    /\ trio' = [trio EXCEPT !.task_pc[c] = "idle", !.pending[c] = None,
                            !.action_message = to_proto(trio.pending[c][1], @),
                            !.lock = IF trio.lock = c THEN "free" ELSE @,
                            !.stats.last_set_action_time = Some(Len(trio.sent))]
    /\ UNCHANGED threaded_vars
    /\ UNCHANGED <<cache_vars, fanout_vars, observer_vars, function_vars>>

\* reset_action: the task takes the lock.
TrioResetActionAcquire(c) ==
    /\ variant = "trio"
    /\ trio.task_pc[c] = "idle"
    /\ trio.writes < MaxCalls
    /\ TrioSetActionLockFree
    /\ trio' = [trio EXCEPT !.task_pc[c] = "reset",
                            !.lock = IF trio.lock = "free" THEN c ELSE @,
                            !.writes = @ + 1]
    /\ UNCHANGED threaded_vars
    /\ UNCHANGED <<cache_vars, fanout_vars, observer_vars, function_vars>>

\* reset_action: self._action_message.Clear(), the lock is released and
\* last_set_action_time set.
TrioResetActionClear(c) ==
    /\ variant = "trio"
    /\ trio.task_pc[c] = "reset"
    /\ trio' = [trio EXCEPT !.task_pc[c] = "idle",
                            !.action_message = EmptyMessage,
                            !.lock = IF trio.lock = c THEN "free" ELSE @,
                            !.stats.last_set_action_time = Some(Len(trio.sent))]
    /\ UNCHANGED threaded_vars
    /\ UNCHANGED <<cache_vars, fanout_vars, observer_vars, function_vars>>

DispatcherInit ==
    /\ ThreadedInit
    /\ variant \in {"threaded", "trio"}
    /\ trio = TrioInit

DispatcherNext ==
    \/ \E c \in Callers, a \in RawMovementAction : SetActionWrite(c, a)
    \/ \E c \in Callers : ResetActionClear(c)
    \/ \E c \in Callers : CallerStats(c)
    \/ Start
    \/ RunBegin
    \/ Stop
    \/ GenCheck
    \/ GenEncode
    \/ GenRelease
    \/ GenStats
    \/ GenYield
    \/ FutureDone
    \/ RunCancel
    \/ RunExit
    \/ TrioRun
    \/ TrioTickAcquire
    \/ TrioTickSend
    \/ TrioTickRelease
    \/ \E c \in Callers, a \in RawMovementAction : TrioSetActionAcquire(c, a)
    \/ \E c \in Callers : TrioSetActionWrite(c)
    \/ \E c \in Callers : TrioResetActionAcquire(c)
    \/ \E c \in Callers : TrioResetActionClear(c)


\* ------------------------------------------------- Observation Cache model

CameraIds == {0, 1}
\* Concurrent readers of the cache.
Readers == {"r1", "r2"}

\* The robots of a detection frame (robots_blue), a repeated field.
RobotLists == { <<>>, <<0>> }

\* SSL_DetectionFrame(): the default-constructed frame of the defaultdict.
DefaultFrame == [camera_id |-> 0, frame_number |-> 0, robots |-> <<>>]

\* The detection frames a datagram with number n can carry.
DetectionFrames(n) == [camera_id : CameraIds, frame_number : {n}, robots : RobotLists]

\* The datagrams the socket can deliver as the n-th: bytes that do not decode,
\* or a wrapper packet with or without a detection, with or without geometry.
Datagrams(n) ==
    {[kind |-> "malformed", detection |-> None, geometry |-> FALSE]}
    \cup [kind : {"wrapper"},
          detection : {None} \cup {Some(f) : f \in DetectionFrames(n)},
          geometry : BOOLEAN]

NoDatagram == [kind |-> "none", detection |-> None, geometry |-> FALSE]

\* A buggy copy that merges the new frame into the slot (MergeFrom).
MergeFrom(dst, src) ==
    [camera_id |-> src.camera_id, frame_number |-> src.frame_number,
     robots |-> dst.robots \o src.robots]

\* frame.CopyFrom(detection): the slot's content is replaced by the new frame.
CopyFrom(dst, src) == src

\* A buggy test that takes every decoded packet for a detection.
HasFieldAlways(d) == TRUE

\* wrapper_packet.HasField("detection")
HasFieldDetection(d) == d.detection # None

\* wrapper_packet.detection of a packet: the default frame when the field is unset.
DetectionOf(d) == IF d.detection # None THEN d.detection[1] ELSE DefaultFrame

\* A buggy read that leaves the internal map as it is.
KeepDetections(d) == d

\* self.__detections.clear()
ClearDetections(d) == <<>>

\* A buggy handler: the decode error ends the receive loop.
DecodeErrorRaise == "stopped"

\* except DecodeError: ... continue
DecodeErrorContinue == "head"

\* frame = self.__detections[camera_id]: the slot's object, created by the
\* defaultdict when the camera has none. The heap after the lookup.
HeapWithSlot(d, h, cam) == IF cam \in DOMAIN d THEN h ELSE Append(h, DefaultFrame)

\* The map after the lookup.
MapWithSlot(d, h, cam) == IF cam \in DOMAIN d THEN d ELSE (cam :> (Len(h) + 1)) @@ d

\* The slot update of both variants: look the slot up, copy the frame into it.
UpdateSlot(f) ==
    LET cam == f.camera_id
        h1 == HeapWithSlot(detections, heap, cam)
        d1 == MapWithSlot(detections, heap, cam)
    IN /\ detections' = d1
       /\ heap' = [h1 EXCEPT ![d1[cam]] = CopyFrom(h1[d1[cam]], f)]

\* A buggy bookkeeping that counts the cameras the map holds.
StatsAfterUpdatePerCamera(s) ==
    [num_updates |-> s.num_updates + Cardinality(DOMAIN detections),
     last_update_time |-> Some(num_datagrams)]

\* self._stats.num_updates += 1; self._stats.last_update_time = time.time():
\* time is measured in datagrams received.
StatsAfterUpdate(s) ==
    [num_updates |-> s.num_updates + 1, last_update_time |-> Some(num_datagrams)]

CacheInit ==
    /\ cache_variant \in {"threaded", "trio"}
    /\ detections = <<>>
    /\ heap = <<>>
    /\ cache_stats = [num_updates |-> 0, last_update_time |-> None]
    /\ cache_stop = FALSE
    /\ recv_pc = "idle"
    /\ datagram = NoDatagram
    /\ cache_lock = "free"
    /\ reader_pc = [r \in Readers |-> "idle"]
    /\ num_datagrams = 0
    /\ malformed_seen = 0
    /\ updated = <<>>
    /\ reads = <<>>

\* --- threaded variant

\* Thread.start() and the head of run(): the stop event is cleared.
CacheStart ==
    /\ cache_variant = "threaded"
    /\ recv_pc = "idle"
    /\ recv_pc' = "head"
    /\ cache_stop' = FALSE
    /\ UNCHANGED <<cache_variant, detections, heap, cache_stats, datagram, cache_lock,
                   reader_pc, num_datagrams, malformed_seen, updated, reads>>
    /\ UNCHANGED <<dispatcher_vars, fanout_vars, observer_vars, function_vars>>

\* stop()
CacheStop ==
    /\ cache_variant = "threaded"
    /\ recv_pc \notin {"idle", "stopped"}
    /\ ~cache_stop
    /\ cache_stop' = TRUE
    /\ UNCHANGED <<cache_variant, detections, heap, cache_stats, recv_pc, datagram,
                   cache_lock, reader_pc, num_datagrams, malformed_seen, updated, reads>>
    /\ UNCHANGED <<dispatcher_vars, fanout_vars, observer_vars, function_vars>>

\* while not self._stop_event.is_set(): the loop goes on to recv_into, or ends.
CacheLoopHead ==
    /\ cache_variant = "threaded"
    /\ recv_pc = "head"
    /\ recv_pc' = IF cache_stop THEN "stopped" ELSE "recv"
    /\ UNCHANGED <<cache_variant, detections, heap, cache_stats, cache_stop, datagram,
                   cache_lock, reader_pc, num_datagrams, malformed_seen, updated, reads>>
    /\ UNCHANGED <<dispatcher_vars, fanout_vars, observer_vars, function_vars>>

\* num_bytes = self._sock.recv_into(self.__recv_view): a datagram arrives.
CacheRecv(d) ==
    /\ cache_variant = "threaded"
    /\ recv_pc = "recv"
    /\ num_datagrams < MaxDatagrams
    /\ datagram' = d
    /\ num_datagrams' = num_datagrams + 1
    /\ recv_pc' = "parse"
    /\ UNCHANGED <<cache_variant, detections, heap, cache_stats, cache_stop, cache_lock,
                   reader_pc, malformed_seen, updated, reads>>
    /\ UNCHANGED <<dispatcher_vars, fanout_vars, observer_vars, function_vars>>

\* wrapper_packet.ParseFromString(data_view), with its except DecodeError.
CacheParse ==
    /\ cache_variant = "threaded"
    /\ recv_pc = "parse"
    /\ IF datagram.kind = "malformed"
       THEN /\ recv_pc' = DecodeErrorContinue
            /\ malformed_seen' = malformed_seen + 1
       ELSE /\ recv_pc' = "stats"
            /\ UNCHANGED malformed_seen
    /\ UNCHANGED <<cache_variant, detections, heap, cache_stats, cache_stop, datagram,
                   cache_lock, reader_pc, num_datagrams, updated, reads>>
    /\ UNCHANGED <<dispatcher_vars, fanout_vars, observer_vars, function_vars>>

\* with self._stats_lock: num_updates += 1; last_update_time = time.time(),
\* then the HasField("detection") test.
CacheStats ==
    /\ cache_variant = "threaded"
    /\ recv_pc = "stats"
    /\ cache_stats' = StatsAfterUpdate(cache_stats)
    /\ recv_pc' = IF HasFieldDetection(datagram) THEN "update" ELSE "head"
    /\ UNCHANGED <<cache_variant, detections, heap, cache_stop, datagram, cache_lock,
                   reader_pc, num_datagrams, malformed_seen, updated, reads>>
    /\ UNCHANGED <<dispatcher_vars, fanout_vars, observer_vars, function_vars>>

\* with self.__detections_lock: frame = self.__detections[camera_id];
\* frame.CopyFrom(wrapper_packet.detection)
CacheUpdate ==
    /\ cache_variant = "threaded"
    /\ recv_pc = "update"
    /\ UpdateSlot(DetectionOf(datagram))
    /\ updated' = IF datagram.detection # None
                  THEN (datagram.detection[1].camera_id :> datagram.detection[1]) @@ updated
                  ELSE updated
    /\ recv_pc' = "head"
    /\ UNCHANGED <<cache_variant, cache_stats, cache_stop, datagram, cache_lock, reader_pc,
                   num_datagrams, malformed_seen, reads>>
    /\ UNCHANGED <<dispatcher_vars, fanout_vars, observer_vars, function_vars>>

\* What a read hands out: per camera the frame object (its heap index, 0 for
\* a private copy) and the content it has at that moment.
ReadResult(copies) ==
    [result |-> [cam \in DOMAIN detections |-> heap[detections[cam]]],
     objects |-> [cam \in DOMAIN detections |-> IF copies THEN 0 ELSE detections[cam]],
     updated |-> updated]

\* get_latest(): under the lock, the map's entries are put into a new dict
\* and the map is cleared.
GetLatest(r) ==
    /\ cache_variant = "threaded"
    /\ Len(reads) < MaxReads
    /\ reads' = Append(reads, ReadResult(FALSE))
    /\ detections' = ClearDetections(detections)
    /\ updated' = <<>>
    /\ UNCHANGED <<cache_variant, heap, cache_stats, cache_stop, recv_pc, datagram,
                   cache_lock, reader_pc, num_datagrams, malformed_seen>>
    /\ UNCHANGED <<dispatcher_vars, fanout_vars, observer_vars, function_vars>>

\* --- trio variant

\* run(): async with self.detections: the loop over the channel is entered.
TrioCacheRun ==
    /\ cache_variant = "trio"
    /\ recv_pc = "idle"
    /\ recv_pc' = "recv"
    /\ UNCHANGED <<cache_variant, detections, heap, cache_stats, cache_stop, datagram,
                   cache_lock, reader_pc, num_datagrams, malformed_seen, updated, reads>>
    /\ UNCHANGED <<dispatcher_vars, fanout_vars, observer_vars, function_vars>>

\* async for detection in self.detections: a frame comes out of the channel.
TrioCacheReceive(f) ==
    /\ cache_variant = "trio"
    /\ recv_pc = "recv"
    /\ num_datagrams < MaxDatagrams
    /\ datagram' = [kind |-> "wrapper", detection |-> Some(f), geometry |-> FALSE]
    /\ num_datagrams' = num_datagrams + 1
    /\ recv_pc' = "acquire"
    /\ UNCHANGED <<cache_variant, detections, heap, cache_stats, cache_stop, cache_lock,
                   reader_pc, malformed_seen, updated, reads>>
    /\ UNCHANGED <<dispatcher_vars, fanout_vars, observer_vars, function_vars>>

\* async with self.__detection_lock: run() takes the lock.
TrioCacheAcquire ==
    /\ cache_variant = "trio"
    /\ recv_pc = "acquire"
    /\ cache_lock = "free"
    /\ cache_lock' = "run"
    /\ recv_pc' = "update"
    /\ UNCHANGED <<cache_variant, detections, heap, cache_stats, cache_stop, datagram,
                   reader_pc, num_datagrams, malformed_seen, updated, reads>>
    /\ UNCHANGED <<dispatcher_vars, fanout_vars, observer_vars, function_vars>>

\* frame = self.__detections[detection.camera_id]; frame.CopyFrom(detection);
\* the lock is released; num_updates += 1; last_update_time = current_time()
TrioCacheUpdate ==
    /\ cache_variant = "trio"
    /\ recv_pc = "update"
    /\ UpdateSlot(DetectionOf(datagram))
    /\ updated' = (datagram.detection[1].camera_id :> datagram.detection[1]) @@ updated
    /\ cache_lock' = "free"
    /\ cache_stats' = StatsAfterUpdate(cache_stats)
    /\ recv_pc' = "recv"
    /\ UNCHANGED <<cache_variant, cache_stop, datagram, reader_pc, num_datagrams,
                   malformed_seen, reads>>
    /\ UNCHANGED <<dispatcher_vars, fanout_vars, observer_vars, function_vars>>

\* clone(): async with self.__detection_lock: the reading task takes the lock.
TrioCloneAcquire(r) ==
    /\ cache_variant = "trio"
    /\ reader_pc[r] = "idle"
    /\ Len(reads) + Cardinality({q \in Readers : reader_pc[q] = "locked"}) < MaxReads
    /\ cache_lock = "free"
    /\ cache_lock' = r
    /\ reader_pc' = [reader_pc EXCEPT ![r] = "locked"]
    /\ UNCHANGED <<cache_variant, detections, heap, cache_stats, cache_stop, recv_pc,
                   datagram, num_datagrams, malformed_seen, updated, reads>>
    /\ UNCHANGED <<dispatcher_vars, fanout_vars, observer_vars, function_vars>>

\* clone(): every frame is copied into a new SSL_DetectionFrame, the map is
\* cleared and the lock released.
TrioCloneCopy(r) ==
    /\ cache_variant = "trio"
    /\ reader_pc[r] = "locked"
    /\ reads' = Append(reads, ReadResult(TRUE))
    /\ detections' = ClearDetections(detections)
    /\ updated' = <<>>
    /\ cache_lock' = "free"
    /\ reader_pc' = [reader_pc EXCEPT ![r] = "idle"]
    /\ UNCHANGED <<cache_variant, heap, cache_stats, cache_stop, recv_pc, datagram,
                   num_datagrams, malformed_seen>>
    /\ UNCHANGED <<dispatcher_vars, fanout_vars, observer_vars, function_vars>>

CacheNext ==
    \/ CacheStart
    \/ CacheStop
    \/ CacheLoopHead
    \/ \E d \in Datagrams(num_datagrams + 1) : CacheRecv(d)
    \/ CacheParse
    \/ CacheStats
    \/ CacheUpdate
    \/ \E r \in Readers : GetLatest(r)
    \/ TrioCacheRun
    \/ \E f \in DetectionFrames(num_datagrams + 1) : TrioCacheReceive(f)
    \/ TrioCacheAcquire
    \/ TrioCacheUpdate
    \/ \E r \in Readers : TrioCloneAcquire(r)
    \/ \E r \in Readers : TrioCloneCopy(r)

\* ------------------------------------------- Multicast receiver with fan-out

\* queue_size of a channel: a buffer of that many frames, or math.inf (a
\* size no number of frames reaches).
Inf == MaxFrames + 1
QueueSizes == {0, 1, Inf}

Kinds == {"detection", "geometry"}

\* The datagrams the socket can deliver: bytes that do not decode, or a
\* wrapper packet with or without a detection, with or without geometry.
WrapperPackets ==
    {[kind |-> "malformed", detection |-> FALSE, geometry |-> FALSE]}
    \cup [kind : {"wrapper"}, detection : BOOLEAN, geometry : BOOLEAN]

NoPacket == [kind |-> "none", detection |-> FALSE, geometry |-> FALSE]

\* trio.open_memory_channel(queue_size): the channel with its receive end
\* open. data is the buffer, parked the frame of a send waiting for room, got
\* the frame the latest receive on the open receive end returned (history;
\* 0: none), payloads the payloads handed to chan.send for the open receive
\* end (history), waited whether the create call that opened the channel had
\* to wait for the registry's lock (history).
OpenMemoryChannel(kind, size) ==
    [kind |-> kind, size |-> size, data |-> <<>>, open |-> TRUE, parked |-> None, got |-> 0,
     payloads |-> {}, waited |-> FALSE]

\* A buggy receive that returns the newest buffered frame.
Newest(data) == data[Len(data)]

\* MemoryReceiveChannel.receive returns the oldest buffered frame.
Oldest(data) == Head(data)

\* The channel's buffer has room for one more frame.
HasRoom(ch) == Len(ch.data) < ch.size

\* The registry of a kind.
Registry(kind) == IF kind = "detection" THEN detection_channels ELSE geometry_channels

\* recv_message is in run_all of the round of a kind, holding the registry's lock.
RoundOf(kind) == IF kind = "detection" THEN "detection_round" ELSE "geometry_round"

\* A buggy round that sends the detection whatever its kind.
PayloadDetection(kind) == "detection"

\* partial(chan.send, wrapper_packet.detection) in the detection round,
\* partial(chan.send, wrapper_packet.geometry) in the geometry round: the
\* field of the wrapper packet that the round of a kind sends.
Payload(kind) == kind

\* A buggy round that takes no delivery for broken.
NoBrokenIndices(tasks) == <<>>

\* channels_to_delete: the indices whose result.unwrap() raised
\* trio.BrokenResourceError, in increasing order.
RECURSIVE BrokenIndices(_)
BrokenIndices(tasks) ==
    IF tasks = <<>> THEN <<>>
    ELSE LET n == Len(tasks)
             front == BrokenIndices(SubSeq(tasks, 1, n - 1))
         IN IF tasks[n] = "broken" THEN Append(front, n) ELSE front

\* del list[i]
DeleteAt(list, i) == SubSeq(list, 1, i - 1) \o SubSeq(list, i + 1, Len(list))

\* A buggy round that deletes the first broken channel only.
DeleteFirst(list, idxs) == IF idxs = <<>> THEN list ELSE DeleteAt(list, idxs[1])

\* for i in reversed(channels_to_delete): del self.__detection_channels[i]
RECURSIVE DeleteReversed(_, _)
DeleteReversed(list, idxs) ==
    IF idxs = <<>> THEN list
    ELSE DeleteReversed(DeleteAt(list, idxs[Len(idxs)]), SubSeq(idxs, 1, Len(idxs) - 1))

\* wrapper_packet.ParseFromString(data_view) raises DecodeError: nothing in
\* recv_message or run catches it, so it ends run.
AfterDecodeError == "failed"

\* The phase that follows the parse or the round of a kind: the detection
\* round if the packet has a detection, then the geometry round if it has
\* geometry, then run()'s next recv_message.
NextPhase(packet, after) ==
    IF after = "parse" /\ packet.detection THEN RoundOf("detection")
    ELSE IF packet.geometry /\ after # "geometry" THEN RoundOf("geometry")
    ELSE "recv"

\* async with the registry's lock: one send per channel of the registry is
\* handed to run_all; no task runs outside a round.
SendFuncs(phase) ==
    IF phase = RoundOf("detection") THEN [i \in DOMAIN detection_channels |-> "pending"]
    ELSE IF phase = RoundOf("geometry") THEN [i \in DOMAIN geometry_channels |-> "pending"]
    ELSE <<>>

FanoutInit ==
    /\ fan_pc = "recv"
    /\ wrapper_packet = NoPacket
    /\ detection_channels = <<>>
    /\ geometry_channels = <<>>
    /\ channels = <<>>
    /\ send_tasks = <<>>
    /\ fan_count = 0
    /\ removed = {}

\* The channels of a kind whose create call has opened them and waits for
\* the registry's lock: neither in the registry nor deleted from it.
Waiting(kind) ==
    {c \in DOMAIN channels :
        /\ channels[c].kind = kind
        /\ c \notin removed
        /\ \A i \in DOMAIN Registry(kind) : Registry(kind)[i] # c}

\* A buggy lock that lets a create call in while the round is in progress.
RegistryLockIgnored(kind) == TRUE

\* async with self.__detection_channels_lock (create call): trio.Lock is
\* free when no round of the kind holds it and no earlier create call waits
\* for it.
RegistryLockFree(kind) == fan_pc # RoundOf(kind) /\ Waiting(kind) = {}

\* The registries with channel c appended to the one of its kind.
Appended(kind, c) ==
    /\ IF kind = "detection"
       THEN /\ detection_channels' = Append(detection_channels, c)
            /\ UNCHANGED geometry_channels
       ELSE /\ geometry_channels' = Append(geometry_channels, c)
            /\ UNCHANGED detection_channels

\* create_detection_channel / create_geometry_channel while the registry's
\* lock is free: a channel is opened and, under the lock, its send end
\* appended.
CreateChannelNow(kind, size) ==
    /\ Len(channels) < MaxChannels
    /\ RegistryLockFree(kind)
    /\ channels' = Append(channels, OpenMemoryChannel(kind, size))
    /\ Appended(kind, Len(channels) + 1)
    /\ UNCHANGED <<fan_pc, wrapper_packet, send_tasks, fan_count, removed>>
    /\ UNCHANGED <<dispatcher_vars, cache_vars, observer_vars, function_vars>>

\* create_detection_channel / create_geometry_channel while the lock is
\* held: the channel is opened and the call waits for the lock.
CreateChannelWaits(kind, size) ==
    /\ Len(channels) < MaxChannels
    /\ ~RegistryLockFree(kind)
    /\ channels' = Append(channels, [OpenMemoryChannel(kind, size) EXCEPT !.waited = TRUE])
    /\ UNCHANGED <<detection_channels, geometry_channels>>
    /\ UNCHANGED <<fan_pc, wrapper_packet, send_tasks, fan_count, removed>>
    /\ UNCHANGED <<dispatcher_vars, cache_vars, observer_vars, function_vars>>

\* A waiting create call gets the lock, which trio.Lock hands to its
\* waiters in the order they came when the round releases it, and appends
\* its send end.
RegisterChannel(c) ==
    /\ c \in DOMAIN channels
    /\ LET kind == channels[c].kind
       IN /\ c \in Waiting(kind)
          /\ \A w \in Waiting(kind) : c <= w
          /\ fan_pc # RoundOf(kind)
          /\ Appended(kind, c)
    /\ UNCHANGED <<fan_pc, wrapper_packet, channels, send_tasks, fan_count, removed>>
    /\ UNCHANGED <<dispatcher_vars, cache_vars, observer_vars, function_vars>>

\* async with the registry's lock (recv_message): the round of a phase
\* starts when no create call that came before it waits for the lock.
RoundCanStart(phase) ==
    \A kind \in Kinds : phase = RoundOf(kind) => Waiting(kind) = {}

\* recv_message up to its first round: num_bytes = await
\* self._sock.recv_into(...): a datagram arrives;
\* wrapper_packet.ParseFromString(data_view), the HasField tests and the
\* taking of the first registry's lock follow without another task running;
\* the sends are handed to run_all.
FanRecv(d) ==
    /\ fan_pc = "recv"
    /\ fan_count < MaxFrames
    /\ wrapper_packet' = d
    /\ fan_count' = fan_count + 1
    /\ fan_pc' = IF d.kind = "malformed"
                 THEN AfterDecodeError
                 ELSE NextPhase(d, "parse")
    /\ RoundCanStart(fan_pc')
    /\ send_tasks' = SendFuncs(fan_pc')
    /\ UNCHANGED <<detection_channels, geometry_channels, channels, removed>>
    /\ UNCHANGED <<dispatcher_vars, cache_vars, observer_vars, function_vars>>

\* run_one / chan.send(frame): the frame goes into the channel's buffer, or
\* the send raises BrokenResourceError (no receiver left), or it waits for room.
FanSend(kind, i) ==
    /\ fan_pc = RoundOf(kind)
    /\ i \in DOMAIN send_tasks
    /\ send_tasks[i] = "pending"
    /\ LET c == Registry(kind)[i]
           ch == channels[c]
       IN IF ~ch.open
          THEN /\ send_tasks' = [send_tasks EXCEPT ![i] = "broken"]
               /\ UNCHANGED channels
          ELSE IF HasRoom(ch)
          THEN /\ send_tasks' = [send_tasks EXCEPT ![i] = "ok"]
               /\ channels' = [channels EXCEPT ![c].data = Append(@, fan_count),
                                               ![c].payloads = @ \cup {Payload(kind)}]
          ELSE /\ send_tasks' = [send_tasks EXCEPT ![i] = "parked"]
               /\ channels' = [channels EXCEPT ![c].parked = Some(fan_count),
                                               ![c].payloads = @ \cup {Payload(kind)}]
    /\ UNCHANGED <<fan_pc, wrapper_packet, detection_channels, geometry_channels,
                   fan_count, removed>>
    /\ UNCHANGED <<dispatcher_vars, cache_vars, observer_vars, function_vars>>

\* The index in the round in progress of the send task waiting on channel c.
ParkedTask(c) ==
    LET kind == channels[c].kind
    IN CHOOSE i \in DOMAIN send_tasks : Registry(kind)[i] = c

\* The subscriber receives one frame from its channel: a waiting send moves
\* its frame into the buffer and returns, the oldest buffered frame is taken.
Receive(c) ==
    /\ c \in DOMAIN channels
    /\ channels[c].open
    /\ channels[c].data # <<>> \/ channels[c].parked # None
    /\ LET ch == channels[c]
           data == IF ch.parked # None THEN Append(ch.data, ch.parked[1]) ELSE ch.data
       IN /\ channels' = [channels EXCEPT ![c].data = Tail(data),
                                          ![c].parked = None,
                                          ![c].got = Oldest(data)]
          /\ send_tasks' = IF ch.parked # None
                           THEN [send_tasks EXCEPT ![ParkedTask(c)] = "ok"]
                           ELSE send_tasks
    /\ UNCHANGED <<fan_pc, wrapper_packet, detection_channels, geometry_channels,
                   fan_count, removed>>
    /\ UNCHANGED <<dispatcher_vars, cache_vars, observer_vars, function_vars>>

\* The subscriber closes its receive end: buffered frames are dropped and a
\* waiting send raises BrokenResourceError.
Close(c) ==
    /\ c \in DOMAIN channels
    /\ channels[c].open
    /\ channels' = [channels EXCEPT ![c].open = FALSE, ![c].data = <<>>, ![c].parked = None,
                                    ![c].got = 0, ![c].payloads = {}]
    /\ send_tasks' = IF channels[c].parked # None
                     THEN [send_tasks EXCEPT ![ParkedTask(c)] = "broken"]
                     ELSE send_tasks
    /\ UNCHANGED <<fan_pc, wrapper_packet, detection_channels, geometry_channels,
                   fan_count, removed>>
    /\ UNCHANGED <<dispatcher_vars, cache_vars, observer_vars, function_vars>>

\* recv_message: run_all has returned (every send has): the channels whose
\* send raised BrokenResourceError are deleted and the lock is released; the
\* geometry round starts if it is due, or recv_message returns.
FanRoundFinish(kind) ==
    /\ fan_pc = RoundOf(kind)
    /\ \A i \in DOMAIN send_tasks : send_tasks[i] \in {"ok", "broken"}
    /\ LET before == Registry(kind)
           after == DeleteReversed(before, BrokenIndices(send_tasks))
       IN /\ IF kind = "detection"
             THEN /\ detection_channels' = after
                  /\ UNCHANGED geometry_channels
             ELSE /\ geometry_channels' = after
                  /\ UNCHANGED detection_channels
          /\ removed' = removed \cup {before[i] : i \in {j \in DOMAIN before :
                                        \A k \in DOMAIN after : after[k] # before[j]}}
    /\ fan_pc' = NextPhase(wrapper_packet, kind)
    /\ RoundCanStart(fan_pc')
    /\ send_tasks' = SendFuncs(fan_pc')
    /\ UNCHANGED <<wrapper_packet, channels, fan_count>>
    /\ UNCHANGED <<dispatcher_vars, cache_vars, observer_vars, function_vars>>

\* Subscribers that come between the rounds of their kind.
FanoutNext ==
    \/ \E kind \in Kinds, size \in QueueSizes : CreateChannelNow(kind, size)
    \/ \E d \in WrapperPackets : FanRecv(d)
    \/ \E kind \in Kinds, i \in 1..MaxChannels : FanSend(kind, i)
    \/ \E c \in 1..MaxChannels : Receive(c)
    \/ \E c \in 1..MaxChannels : Close(c)
    \/ \E kind \in Kinds : FanRoundFinish(kind)

\* The queue sizes of the subscribers that come at any time: unbounded.
SubscribeSizes == {Inf}

\* The datagrams that start a round: a detection, geometry or both.
RoundPackets == {p \in WrapperPackets : p.detection \/ p.geometry}

\* Subscribers that come at any time, also during a round of their kind.
SubscribeNext ==
    \/ \E kind \in Kinds, size \in SubscribeSizes : CreateChannelNow(kind, size)
    \/ \E kind \in Kinds, size \in SubscribeSizes : CreateChannelWaits(kind, size)
    \/ \E c \in 1..MaxChannels : RegisterChannel(c)
    \/ \E d \in RoundPackets : FanRecv(d)
    \/ \E kind \in Kinds, i \in 1..MaxChannels : FanSend(kind, i)
    \/ \E c \in 1..MaxChannels : Receive(c)
    \/ \E c \in 1..MaxChannels : Close(c)
    \/ \E kind \in Kinds : FanRoundFinish(kind)

\* -------------------------------------------- environment state construction

\* Number of robots a detection frame lists per team.
MaxRobotsPerTeam == 2
\* Number of cameras the environment is configured with.
MaxCameras == 3

Teams == {"BLUE", "YELLOW"}

\* The pose the k-th robot of a team's list is detected at: x, y,
\* orientation, all different and none zero.
DetectedPose(team, k) ==
    LET t == IF team = "BLUE" THEN 1 ELSE 2
    IN <<100 * t + k, 200 * t + k, 300 * t + k>>

\* robots_blue / robots_yellow of a frame: up to MaxRobotsPerTeam detections,
\* each with a robot id (ids may repeat) and its pose.
RobotDetections(team) ==
    UNION {[1..n -> RobotIds] : n \in 0..MaxRobotsPerTeam}

\* The detection frames of the raw map: each team's list of robot ids.
RawFrames == [robots_blue : RobotDetections("BLUE"), robots_yellow : RobotDetections("YELLOW")]

\* The raw detection maps get_latest returns: camera id -> frame, for any
\* subset of the cameras 0 and 1.
RawDetections == UNION {[cams -> RawFrames] : cams \in SUBSET {0, 1}}

NoFiltering == [robot_id |-> 0, team |-> "BLUE", num_cameras |-> 0,
                raw_detections |-> <<>>, state |-> None]

\* A buggy lookup that takes the robots of both teams.
RobotsOfAnyTeam(detection, team) ==
    [k \in 1..Len(detection.robots_blue) |->
        [robot_id |-> detection.robots_blue[k], pose |-> DetectedPose("BLUE", k)]]
    \o [k \in 1..Len(detection.robots_yellow) |->
        [robot_id |-> detection.robots_yellow[k], pose |-> DetectedPose("YELLOW", k)]]

\* detection.robots_blue when self.team == Team.BLUE, else detection.robots_yellow
RobotsOfTeam(detection, team) ==
    IF team = "BLUE"
    THEN [k \in 1..Len(detection.robots_blue) |->
            [robot_id |-> detection.robots_blue[k], pose |-> DetectedPose("BLUE", k)]]
    ELSE [k \in 1..Len(detection.robots_yellow) |->
            [robot_id |-> detection.robots_yellow[k], pose |-> DetectedPose("YELLOW", k)]]

\* The positions of the list whose robot_id is the controlled robot's.
Matches(robots, robot_id) == {k \in DOMAIN robots : robots[k].robot_id = robot_id}

Min(S) == CHOOSE x \in S : \A y \in S : x <= y
Max(S) == CHOOSE x \in S : \A y \in S : x >= y

\* The loop over the team's list: the blue loop breaks at the first match,
\* the yellow loop runs to the end and keeps the last match.
MatchTaken(robots, robot_id, team) ==
    IF team = "BLUE" THEN Min(Matches(robots, robot_id)) ELSE Max(Matches(robots, robot_id))

ZeroPose == <<0, 0, 0>>

\* The two state entries of camera i.
CameraEntries(f, i) ==
    IF i \in DOMAIN f.raw_detections
       /\ Matches(RobotsOfTeam(f.raw_detections[i], f.team), f.robot_id) # {}
    THEN LET robots == RobotsOfTeam(f.raw_detections[i], f.team)
         IN [detected |-> 1, pose |-> robots[MatchTaken(robots, f.robot_id, f.team)].pose]
    ELSE [detected |-> 0, pose |-> ZeroPose]

\* _filter_raw_observations: the dict with the keys cam_i and cam_i_detected
\* for i in range(num_cameras).
filter_raw_observations(f) ==
    [key \in ({"cam"} \X (0..(f.num_cameras - 1))) \cup ({"cam_detected"} \X (0..(f.num_cameras - 1))) |->
        IF key[1] = "cam" THEN <<CameraEntries(f, key[2]).pose>>
        ELSE <<CameraEntries(f, key[2]).detected>>]

\* An environment with its controlled robot, team and number of cameras,
\* and the raw detection map of one reset or step.
FilteringInit ==
    filtering \in [robot_id : RobotIds, team : Teams, num_cameras : 1..MaxCameras,
                   raw_detections : RawDetections, state : {None}]

\* state = self._filter_raw_observations(raw_detections)
FilterRawObservations ==
    /\ filtering.num_cameras > 0
    /\ filtering.state = None
    /\ filtering' = [filtering EXCEPT !.state = Some(filter_raw_observations(filtering))]
    /\ UNCHANGED <<system_vars, wheel, send_failure, env, params, geom, ball, robot, feed, periodic, buffer, locks>>

FilteringNext == FilterRawObservations

\* ---------------------------------------------------------- wire encoding

\* The velocity components callers pass, in hundredths: from -3.00 to 3.00.
MaxVelocity == 300
VelocityInputs == (-MaxVelocity)..MaxVelocity

NoWheel == [v |-> None, stored |-> None, wire |-> None]

\* A caller builds RawMovementAction(robot_id, wheel_velocities).
WheelInit == wheel \in [v : {Some(x) : x \in VelocityInputs}, stored : {None}, wire : {None}]

\* set_action: self._actions[action.robot_id] = action, the array as given.
WheelSetAction ==
    /\ wheel.v # None
    /\ wheel.stored = None
    /\ wheel' = [wheel EXCEPT !.stored = wheel.v]
    /\ UNCHANGED <<system_vars, send_failure, filtering, env, params, geom, ball, robot, feed, periodic, buffer, locks>>

\* to_proto on the tick: robot_command.wheel_velocity[:] = wheel_velocities
WheelToProto ==
    /\ wheel.stored # None
    /\ wheel.wire = None
    /\ wheel' = [wheel EXCEPT !.wire = Some(EncodeWheel(wheel.stored[1]))]
    /\ UNCHANGED <<system_vars, send_failure, filtering, env, params, geom, ball, robot, feed, periodic, buffer, locks>>

EncodingNext ==
    \/ WheelSetAction
    \/ WheelToProto

\* ---------------------------------------------------------- send failures

FailureKinds == {"transient", "permanent"}

\* The trio run(): await stream.send_message(...) raises. run() has no
\* handler: the exception leaves the lock's and the stream's async with
\* blocks (the lock is released) and run() itself.
TrioTickSendRaises(kind) ==
    /\ variant = "trio"
    /\ trio.run_pc = "locked"
    /\ send_failure = "none"
    /\ send_failure' = kind
    /\ trio' = [trio EXCEPT !.run_pc = "raised", !.lock = "free"]
    /\ UNCHANGED <<threaded_vars, cache_vars, fanout_vars, observer_vars, wheel, filtering, env, params, geom, ball, robot, feed, periodic, buffer, locks>>

\* The threaded client: the stream call fails while it is consuming the
\* generator; the call is over and its future done, holding the error.
StreamFails(kind) ==
    /\ variant = "threaded"
    /\ future = "active"
    /\ gen_pc \in {"check", "yield"}
    /\ send_failure = "none"
    /\ send_failure' = kind
    /\ future' = "failed"
    /\ UNCHANGED <<variant, trio, actions, actions_lock, stats, stop_event, thread_state, gen_pc,
                   gen_i, action_message, caller_pc, sent, snap, last_write, writes, last_op>>
    /\ UNCHANGED <<cache_vars, fanout_vars, observer_vars, wheel, filtering, env, params, geom, ball, robot, feed, periodic, buffer, locks>>

\* run(): command_stream_future.done() is true for a failed call as well;
\* the wait loop ends and run() returns without looking at the result.
RunExitFailed ==
    /\ variant = "threaded"
    /\ thread_state = "Running"
    /\ future = "failed"
    /\ thread_state' = "Stopped"
    /\ UNCHANGED <<variant, trio, actions, actions_lock, stats, stop_event, future, gen_pc, gen_i,
                   action_message, caller_pc, sent, snap, last_write, writes, last_op>>
    /\ UNCHANGED <<cache_vars, fanout_vars, observer_vars, function_vars>>

SendFailureNext ==
    \/ DispatcherNext
    \/ \E kind \in FailureKinds : TrioTickSendRaises(kind)
    \/ \E kind \in FailureKinds : StreamFails(kind)
    \/ RunExitFailed

\* ------------------------------------------------- environment reset / step

\* Number of reset() / step() calls explored.
MaxEnvCalls == 3

\* The raw detection maps the cache hands to reset() and step().
RawSamples ==
    { <<>>, (0 :> [robots_blue |-> <<0>>, robots_yellow |-> <<>>]) }

\* The action arrays passed to step(), by name.
EnvActions == {"a1", "a2"}

\* The two components, by the field that tells whether their thread is alive.
Components == {"vision_alive", "action_alive"}

\* The components whose thread is alive.
Alive(e) == {which \in Components : e[which]}

\* finished: the components whose thread has run and ended; life: the latest
\* start(), close() or end of a thread, with the components alive before it
\* and those it started or joined.
\* log: the calls the latest reset() or step() made on the action client,
\* the cache and the reward and terminal functions, in order; last_call: that
\* call and its action; returned: the state it returned.
NoEnv == [variant |-> "none", vision_alive |-> FALSE, action_alive |-> FALSE,
          started |-> FALSE, running |-> FALSE, curr_state |-> None,
          reset_action_calls |-> 0, set_action_calls |-> 0, reads |-> 0,
          raised |-> 0, calls |-> 0,
          robot_id |-> 0, log |-> <<>>, last_call |-> <<"none">>, returned |-> None,
          finished |-> {}, life |-> [op |-> "none"]]

\* __init__ of the threaded and of the trio environment: nothing runs,
\* self._curr_state is what __make_empty_observation_state returns (None).
EnvInit ==
    env \in {[NoEnv EXCEPT !.variant = v, !.robot_id = r] : v \in {"threaded", "trio"},
                                                            r \in {0, 1}}

\* threading.Thread.is_alive() of the dispatcher thread: from start() until
\* run() has returned.
DispatcherThreadAlive == thread_state \in {"Started", "Running"}

\* A buggy is_running that asks the receiver only.
is_runningReceiverOnly(e) ==
    IF e.variant \in {"threaded", "attached"} THEN e.vision_alive ELSE e.running

\* threaded is_running: both threads alive (attached: the dispatcher thread
\* is the modelled one); trio: the flag run() sets.
is_running(e) ==
    IF e.variant = "threaded" THEN e.vision_alive /\ e.action_alive
    ELSE IF e.variant = "attached" THEN e.vision_alive /\ DispatcherThreadAlive
    ELSE e.running

\* The state reset() and step() build from a raw map: the configured robot,
\* blue, one camera.
EnvState(raw) ==
    filter_raw_observations([robot_id |-> env.robot_id, team |-> "BLUE", num_cameras |-> 1,
                             raw_detections |-> raw, state |-> None])

\* A buggy step that evaluates the reward after storing the new state.
RewardArgsAfterStore(e, action, state) == <<Some(state), action, state>>

\* reward_func(self._curr_state, action, state) and
\* is_terminal_func(self._curr_state, action, state)
RewardArgs(e, action, state) == <<e.curr_state, action, state>>

\* The calls of reset(): reset_action(), then get_latest() / clone().
ResetCalls == << <<"reset_action">>, <<"get_latest">> >>

\* The calls of step(action): set_action(RawMovementAction(self._robot_id,
\* action.copy())), get_latest() / clone(), reward_func, is_terminal_func.
\* (The threaded step then reads both statistics for its info map.)
StepCalls(e, action, state) ==
    << <<"set_action", e.robot_id, action, "copy">>,
       <<"get_latest">>,
       <<"reward_func", RewardArgs(e, action, state)>>,
       <<"is_terminal_func", RewardArgs(e, action, state)>> >>

\* Thread.start() raises RuntimeError("threads can only be started once")
\* on a thread that has been started before.
Startable(e, which) == which \notin e.finished

\* threaded start(): the receiver, then the dispatcher, is started if it is
\* not alive; a start that raises leaves start() there.
EnvStart ==
    /\ env.variant = "threaded"
    /\ LET before == Alive(env)
           first == IF env.vision_alive THEN "alive"
                    ELSE IF Startable(env, "vision_alive") THEN "started" ELSE "raised"
           second == IF first = "raised" THEN "not reached"
                     ELSE IF env.action_alive THEN "alive"
                     ELSE IF Startable(env, "action_alive") THEN "started" ELSE "raised"
           started == {which \in Components :
                         IF which = "vision_alive" THEN first = "started"
                         ELSE second = "started"}
       IN env' = [env EXCEPT !.started = TRUE,
                             !.vision_alive = @ \/ first = "started",
                             !.action_alive = @ \/ second = "started",
                             !.life = [op |-> "start", raised |-> "raised" \in {first, second},
                                       alive_before |-> before, acted |-> started]]
    /\ UNCHANGED <<system_vars, wheel, send_failure, filtering, params, geom, ball, robot, feed, periodic, buffer, locks>>

\* A thread's run() returns: its stop() was called, or it ended by itself.
EnvThreadEnds(which) ==
    /\ env.variant = "threaded"
    /\ env[which]
    /\ env' = [env EXCEPT ![which] = FALSE, !.finished = @ \cup {which},
                          !.life = [op |-> "ends", raised |-> FALSE,
                                    alive_before |-> Alive(env), acted |-> {which}]]
    /\ UNCHANGED <<system_vars, wheel, send_failure, filtering, params, geom, ball, robot, feed, periodic, buffer, locks>>

\* threaded close(): stop() on both components, then join() on each that is
\* still alive; join returns when the thread has ended.
EnvClose ==
    /\ env.variant = "threaded"
    /\ env' = [env EXCEPT !.vision_alive = FALSE, !.action_alive = FALSE,
                          !.finished = @ \cup Alive(env),
                          !.life = [op |-> "close", raised |-> FALSE,
                                    alive_before |-> Alive(env), acted |-> Alive(env)]]
    /\ UNCHANGED <<system_vars, wheel, send_failure, filtering, params, geom, ball, robot, feed, periodic, buffer, locks>>

\* trio run(): self._running = True, then the nursery runs both loops.
EnvRun ==
    /\ env.variant = "trio"
    /\ ~env.started
    /\ env' = [env EXCEPT !.started = TRUE, !.running = TRUE,
                          !.vision_alive = TRUE, !.action_alive = TRUE]
    /\ UNCHANGED <<system_vars, wheel, send_failure, filtering, params, geom, ball, robot, feed, periodic, buffer, locks>>

\* trio run(): the nursery block is left. When both loops returned, the
\* line after it sets self._running = False; when run() is cancelled or a
\* loop raises, the exception leaves run() before that line.
EnvRunEnds(how) ==
    /\ env.variant = "trio"
    /\ env.vision_alive /\ env.action_alive
    /\ env' = [env EXCEPT !.vision_alive = FALSE, !.action_alive = FALSE,
                          !.running = IF how = "returned" THEN FALSE ELSE @]
    /\ UNCHANGED <<system_vars, wheel, send_failure, filtering, params, geom, ball, robot, feed, periodic, buffer, locks>>

\* reset(): RuntimeError when not running; else reset_action, a cache read
\* and the new current state.
EnvReset(raw) ==
    /\ env.variant # "none"
    /\ env.calls < MaxEnvCalls
    /\ IF ~is_running(env)
       THEN env' = [env EXCEPT !.calls = @ + 1, !.raised = @ + 1, !.log = <<>>,
                               !.last_call = <<"reset">>, !.returned = None]
       ELSE env' = [env EXCEPT !.calls = @ + 1, !.reset_action_calls = @ + 1,
                               !.reads = @ + 1, !.curr_state = Some(EnvState(raw)),
                               !.log = ResetCalls, !.last_call = <<"reset">>,
                               !.returned = Some(EnvState(raw))]
    /\ UNCHANGED <<system_vars, wheel, send_failure, filtering, params, geom, ball, robot, feed, periodic, buffer, locks>>

\* step(action): RuntimeError when not running; else set_action, a cache
\* read and the new current state.
EnvStep(raw, action) ==
    /\ env.variant # "none"
    /\ env.calls < MaxEnvCalls
    /\ IF ~is_running(env)
       THEN env' = [env EXCEPT !.calls = @ + 1, !.raised = @ + 1, !.log = <<>>,
                               !.last_call = <<"step", action>>, !.returned = None]
       ELSE env' = [env EXCEPT !.calls = @ + 1, !.set_action_calls = @ + 1,
                               !.reads = @ + 1, !.curr_state = Some(EnvState(raw)),
                               !.log = StepCalls(env, action, EnvState(raw)),
                               !.last_call = <<"step", action>>,
                               !.returned = Some(EnvState(raw))]
    /\ UNCHANGED <<system_vars, wheel, send_failure, filtering, params, geom, ball, robot, feed, periodic, buffer, locks>>

EnvNext ==
    \/ EnvStart
    \/ \E which \in {"vision_alive", "action_alive"} : EnvThreadEnds(which)
    \/ EnvClose
    \/ EnvRun
    \/ \E how \in {"returned", "cancelled"} : EnvRunEnds(how)
    \/ \E raw \in RawSamples : EnvReset(raw)
    \/ \E raw \in RawSamples, action \in EnvActions : EnvStep(raw, action)

\* The threaded environment on the modelled dispatcher thread, its receiver
\* thread alive throughout.
EnvAttached ==
    env \in {[NoEnv EXCEPT !.variant = "attached", !.robot_id = r, !.started = TRUE,
                           !.vision_alive = TRUE] : r \in {0, 1}}

\* The dispatcher thread from start() to the end of run(), on a command
\* stream that can fail, under an environment that is reset and stepped.
\* The actions step() sets are counted in the environment and not stored:
\* the generator encodes an empty buffer.
StreamEndsNext ==
    \/ Start
    \/ RunBegin
    \/ Stop
    \/ GenCheck
    \/ GenRelease
    \/ GenStats
    \/ GenYield
    \/ FutureDone
    \/ RunCancel
    \/ RunExit
    \/ \E kind \in FailureKinds : StreamFails(kind)
    \/ RunExitFailed
    \/ \E raw \in RawSamples : EnvReset(raw)
    \/ \E raw \in RawSamples, action \in EnvActions : EnvStep(raw, action)

\* ------------------------------------------------- environment parameters

\* Number of property assignments explored.
MaxAssignments == 2
\* The values callers pass for a parameter run from -1 to MaxParam.
MaxParam == 2
ParamValues == (-1)..MaxParam

Properties == {"robot_id", "num_cameras", "field_width", "field_length"}

NoParams == [status |-> "none"]

\* A buggy check that lets zero through everywhere.
ValidNonNegative(prop, value) == value >= 0

\* The checks of __init__ and of the setters: robot_id < 0, num_cameras < 1,
\* field_width <= 0 and field_length <= 0 raise ValueError.
Valid(prop, value) ==
    IF prop = "robot_id" THEN ~(value < 0)
    ELSE IF prop = "num_cameras" THEN ~(value < 1)
    ELSE ~(value <= 0)

\* __update_observation_space: a box per camera, bounded by half the field
\* width and length (kept here as the width and length themselves), and a
\* detected flag per camera.
ObservationSpace(num_cameras, field_width, field_length) ==
    [cam \in 0..(num_cameras - 1) |-> [width |-> field_width, length |-> field_length]]

\* SingleRobotRawMovementEnv(robot_id, team, num_cameras, field_width,
\* field_length, ...): the first bad argument raises, else the object exists.
Construct(r, n, w, l) ==
    IF Valid("robot_id", r) /\ Valid("num_cameras", n)
       /\ Valid("field_width", w) /\ Valid("field_length", l)
    THEN [status |-> "constructed", args |-> <<r, n, w, l>>,
          robot_id |-> r, num_cameras |-> n, field_width |-> w, field_length |-> l,
          observation_space |-> ObservationSpace(n, w, l),
          assignments |-> 0, last |-> None, before |-> None]
    ELSE [status |-> "raised", args |-> <<r, n, w, l>>]

ParamsInit == params \in {Construct(r, n, w, l) : r, n, w, l \in ParamValues}

\* The properties and the observation space of the object.
Snapshot(e) ==
    [robot_id |-> e.robot_id, num_cameras |-> e.num_cameras, field_width |-> e.field_width,
     field_length |-> e.field_length, observation_space |-> e.observation_space]

\* env.<prop> = value: the setter raises, or stores the value; every setter
\* but robot_id's then rebuilds the observation space.
Assign(prop, value) ==
    /\ params.status = "constructed"
    /\ params.assignments < MaxAssignments
    /\ LET noted == [params EXCEPT !.assignments = @ + 1, !.before = Some(Snapshot(params)),
                                   !.last = Some([prop |-> prop, value |-> value,
                                                  raised |-> ~Valid(prop, value)])]
           stored == [noted EXCEPT ![prop] = value]
       IN params' = IF ~Valid(prop, value) THEN noted
                    ELSE IF prop = "robot_id" THEN stored
                    ELSE [stored EXCEPT !.observation_space =
                              ObservationSpace(stored.num_cameras, stored.field_width,
                                               stored.field_length)]
    /\ UNCHANGED <<system_vars, wheel, send_failure, filtering, env, geom, ball, robot, feed, periodic, buffer, locks>>

ParamsNext == \E prop \in Properties, value \in ParamValues : Assign(prop, value)

\* ------------------------------------------------- field geometry accessors

\* Number of set_field_geometry / get_field_geometry calls explored.
MaxGeometryCalls == 3

\* A geometry is its field_length and field_width. _make_default_field_geometry()
\* is <<0, 0>> here; callers pass <<1, 1>> or <<2, 2>>, so that a mix of two
\* geometries shows; <<9, 9>> is what a caller writes into an object it owns
\* after the call, and never passes to a set.
DefaultGeometry == <<0, 0>>
Geometries == { <<1, 1>>, <<2, 2>> }
Scribble == <<9, 9>>

NoGeom == [variant |-> "none"]

\* Objects: "internal" is self._field_geometry, "g" the caller's argument,
\* "r" the object the latest get returned.
GeomInit ==
    geom \in {[variant |-> v,
               heap |-> [o \in {"internal", "g", "r"} |-> DefaultGeometry],
               lock |-> "free", set_pc |-> "idle", get_pc |-> "idle",
               last_set |-> DefaultGeometry, in_flight |-> DefaultGeometry,
               expected |-> DefaultGeometry, got |-> DefaultGeometry,
               calls |-> 0] : v \in {"visualizer", "grpc"}}

\* A buggy accessor that does not take the lock.
GeometryLockIgnored == TRUE

\* with self._field_geometry_lock:
GeometryLockFree == geom.lock = "free"

\* Left-hand message after copying one field of the right-hand one.
CopyField(dst, src, k) == [dst EXCEPT ![k] = src[k]]

\* The caller writes its own object g, before or after a set call.
CallerWritesG(v) ==
    /\ geom.variant # "none"
    /\ geom.set_pc = "idle"
    /\ geom.heap["g"] # v
    /\ geom' = [geom EXCEPT !.heap["g"] = v]
    /\ UNCHANGED <<system_vars, wheel, send_failure, filtering, env, params, ball, robot, feed, periodic, buffer, locks>>

\* The caller writes into the object a get returned.
CallerWritesR ==
    /\ geom.variant # "none"
    /\ geom.get_pc = "done"
    /\ geom.heap["r"] # Scribble
    /\ geom' = [geom EXCEPT !.heap["r"] = Scribble]
    /\ UNCHANGED <<system_vars, wheel, send_failure, filtering, env, params, ball, robot, feed, periodic, buffer, locks>>

\* set_field_geometry(g): the lock is taken.
SetGeometryLock ==
    /\ geom.variant = "visualizer"
    /\ geom.set_pc = "idle"
    /\ geom.calls < MaxGeometryCalls
    /\ geom.heap["g"] \in Geometries
    /\ GeometryLockFree
    /\ geom' = [geom EXCEPT !.set_pc = "locked", !.lock = "set", !.calls = @ + 1,
                            !.in_flight = geom.heap["g"]]
    /\ UNCHANGED <<system_vars, wheel, send_failure, filtering, env, params, ball, robot, feed, periodic, buffer, locks>>

\* self._field_geometry.CopyFrom(field_geometry): the first field.
SetGeometryCopyLength ==
    /\ geom.variant = "visualizer"
    /\ geom.set_pc = "locked"
    /\ geom' = [geom EXCEPT !.set_pc = "copying",
                            !.heap["internal"] = CopyField(@, geom.heap["g"], 1)]
    /\ UNCHANGED <<system_vars, wheel, send_failure, filtering, env, params, ball, robot, feed, periodic, buffer, locks>>

\* CopyFrom: the second field; the lock is released.
SetGeometryCopyWidth ==
    /\ geom.variant = "visualizer"
    /\ geom.set_pc = "copying"
    /\ geom' = [geom EXCEPT !.set_pc = "idle",
                            !.heap["internal"] = CopyField(@, geom.heap["g"], 2),
                            !.lock = IF @ = "set" THEN "free" ELSE @,
                            !.last_set = geom.in_flight]
    /\ UNCHANGED <<system_vars, wheel, send_failure, filtering, env, params, ball, robot, feed, periodic, buffer, locks>>

\* get_field_geometry(): new_field_geometry = GeometryFieldSize(), the lock
\* is taken.
GetGeometryLock ==
    /\ geom.variant = "visualizer"
    /\ geom.get_pc \in {"idle", "done"}
    /\ geom.calls < MaxGeometryCalls
    /\ GeometryLockFree
    /\ geom' = [geom EXCEPT !.get_pc = "locked", !.lock = "get", !.calls = @ + 1,
                            !.heap["r"] = DefaultGeometry,
                            !.expected = geom.last_set]
    /\ UNCHANGED <<system_vars, wheel, send_failure, filtering, env, params, ball, robot, feed, periodic, buffer, locks>>

\* new_field_geometry.CopyFrom(self._field_geometry): the first field.
GetGeometryCopyLength ==
    /\ geom.variant = "visualizer"
    /\ geom.get_pc = "locked"
    /\ geom' = [geom EXCEPT !.get_pc = "copying",
                            !.heap["r"] = CopyField(@, geom.heap["internal"], 1)]
    /\ UNCHANGED <<system_vars, wheel, send_failure, filtering, env, params, ball, robot, feed, periodic, buffer, locks>>

\* CopyFrom: the second field; the lock is released and the copy returned.
GetGeometryCopyWidth ==
    /\ geom.variant = "visualizer"
    /\ geom.get_pc = "copying"
    /\ LET r == CopyField(geom.heap["r"], geom.heap["internal"], 2)
       IN geom' = [geom EXCEPT !.get_pc = "done", !.heap["r"] = r, !.got = r,
                               !.lock = IF @ = "get" THEN "free" ELSE @]
    /\ UNCHANGED <<system_vars, wheel, send_failure, filtering, env, params, ball, robot, feed, periodic, buffer, locks>>

\* FilterVisualizer.SetFieldGeometry: the request decoded from the stream
\* becomes self.field_geometry; the handler runs without a checkpoint
\* between recv_message's return and the assignment.
GrpcSetFieldGeometry ==
    /\ geom.variant = "grpc"
    /\ geom.calls < MaxGeometryCalls
    /\ geom.heap["g"] \in Geometries
    /\ geom' = [geom EXCEPT !.calls = @ + 1, !.heap["internal"] = geom.heap["g"],
                            !.in_flight = geom.heap["g"], !.last_set = geom.heap["g"]]
    /\ UNCHANGED <<system_vars, wheel, send_failure, filtering, env, params, ball, robot, feed, periodic, buffer, locks>>

\* FilterVisualizer.GetFieldGeometry: self.field_geometry is serialised onto
\* the stream; the caller decodes its own object.
GrpcGetFieldGeometry ==
    /\ geom.variant = "grpc"
    /\ geom.calls < MaxGeometryCalls
    /\ geom' = [geom EXCEPT !.calls = @ + 1, !.get_pc = "done",
                            !.heap["r"] = geom.heap["internal"],
                            !.expected = geom.last_set, !.got = geom.heap["internal"]]
    /\ UNCHANGED <<system_vars, wheel, send_failure, filtering, env, params, ball, robot, feed, periodic, buffer, locks>>

GeometryNext ==
    \/ \E v \in Geometries \cup {Scribble} : CallerWritesG(v)
    \/ CallerWritesR
    \/ SetGeometryLock
    \/ SetGeometryCopyLength
    \/ SetGeometryCopyWidth
    \/ GetGeometryLock
    \/ GetGeometryCopyLength
    \/ GetGeometryCopyWidth
    \/ GrpcSetFieldGeometry
    \/ GrpcGetFieldGeometry

\* ------------------------------------------------- ball filter friction input

\* Ball velocities at construction run from -MaxBallSpeed to MaxBallSpeed.
MaxBallSpeed == 3
\* friction_decel arguments run from -1 to MaxFrictionDecel.
MaxFrictionDecel == 2
\* friction_deadzone arguments run from 1 to MaxDeadzone.
MaxDeadzone == 2
\* Number of predict calls explored on one filter.
MaxPredicts == 2

BallSpeeds == (-MaxBallSpeed)..MaxBallSpeed
FrictionDecels == (-1)..MaxFrictionDecel
Deadzones == 1..MaxDeadzone

NoBall == [status |-> "none"]

Abs(v) == IF v < 0 THEN -v ELSE v

\* np.sign
Sign(v) == IF v > 0 THEN 1 ELSE IF v < 0 THEN -1 ELSE 0

\* apply_deadzone: value[np.abs(value) < deadzone] = 0, on one component.
apply_deadzone(value, deadzone) == IF Abs(value) < deadzone THEN 0 ELSE value

\* The friction input of predict:
\* np.sign(apply_deadzone(velocities, self.friction_deadzone)) * self.friction_decel
\* for velocities = self.x[[1, 3]].
FrictionInput(x, friction_deadzone, friction_decel) ==
    << Sign(apply_deadzone(x[2], friction_deadzone)) * friction_decel,
       Sign(apply_deadzone(x[4], friction_deadzone)) * friction_decel >>

\* BasicBallFilter(x, friction_decel, friction_deadzone): friction_decel < 0
\* raises ValueError, else the filter exists with state x = [x, vx, y, vy].
BasicBallFilter(vx, vy, friction_decel, friction_deadzone) ==
    IF friction_decel < 0
    THEN [status |-> "raised", friction_decel |-> friction_decel]
    ELSE [status |-> "constructed", friction_decel |-> friction_decel,
          friction_deadzone |-> friction_deadzone, x |-> <<0, vx, 0, vy>>,
          predicts |-> 0, before |-> <<0, vx, 0, vy>>, u |-> <<0, 0>>]

BallInit ==
    ball \in {BasicBallFilter(vx, vy, d, z) : vx, vy \in BallSpeeds,
                                               d \in FrictionDecels, z \in Deadzones}

\* predict(dt) without a u of the caller's, as the visualizer calls it: the
\* friction input becomes u, and the Kalman prediction x = F x + B u moves
\* each position by dt * velocity and each velocity by dt * u.
BallPredict(dt) ==
    /\ ball.status = "constructed"
    /\ ball.predicts < MaxPredicts
    /\ LET u == FrictionInput(ball.x, ball.friction_deadzone, ball.friction_decel)
       IN ball' = [ball EXCEPT !.predicts = @ + 1, !.before = ball.x, !.u = u,
                               !.x = << ball.x[1] + dt * ball.x[2], ball.x[2] + dt * u[1],
                                        ball.x[3] + dt * ball.x[4], ball.x[4] + dt * u[2] >>]
    /\ UNCHANGED <<system_vars, wheel, send_failure, filtering, env, params, geom, robot, feed, periodic, buffer, locks>>

BallNext == \E dt \in {1, 2} : BallPredict(dt)

\* ------------------------------------------------- robot filter angles

\* Angles are whole degrees; the callers' angles run from -MaxAngle to
\* MaxAngle, past half a turn on both sides.
MaxAngle == 181
\* Sigma point weights run from 1 to MaxWeight.
MaxWeight == 2
HalfTurn == 180
FullTurn == 360

\* The angles tried: every eighth of a turn, and the degrees next to zero
\* and next to half a turn.
AngleInputs ==
    {d \in (-MaxAngle)..MaxAngle : Abs(d) % 45 = 0 \/ Abs(d) <= 1 \/ Abs(d) >= HalfTurn - 2}
Weights == 1..MaxWeight
\* The x component of the vectors passed along with the angle.
Coordinates == {0, 5}

NoRobot == [status |-> "none"]

\* np.fmod: the remainder has the sign of the dividend.
fmod(x, m) == IF x >= 0 THEN x % m ELSE -((-x) % m)

\* angle_mod: -pi + fmod(2 pi + fmod(angle + pi, 2 pi), 2 pi)
angle_mod(angle) == -HalfTurn + fmod(FullTurn + fmod(angle + HalfTurn, FullTurn), FullTurn)

\* _residual_x and _residual_z, on <<x, theta>>: y = a - b; y[2] = angle_mod(y[2])
Residual(a, b) == <<a[1] - b[1], angle_mod(a[2] - b[2])>>

\* 10000 * sin of 0 .. 90 degrees.
SinTable ==
    <<
       0, 175, 349, 523, 698, 872, 1045, 1219, 1392, 1564, 1736, 1908, 2079,
       2250, 2419, 2588, 2756, 2924, 3090, 3256, 3420, 3584, 3746, 3907, 4067, 4226,
       4384, 4540, 4695, 4848, 5000, 5150, 5299, 5446, 5592, 5736, 5878, 6018, 6157,
       6293, 6428, 6561, 6691, 6820, 6947, 7071, 7193, 7314, 7431, 7547, 7660, 7771,
       7880, 7986, 8090, 8192, 8290, 8387, 8480, 8572, 8660, 8746, 8829, 8910, 8988,
       9063, 9135, 9205, 9272, 9336, 9397, 9455, 9511, 9563, 9613, 9659, 9703, 9744,
       9781, 9816, 9848, 9877, 9903, 9925, 9945, 9962, 9976, 9986, 9994, 9998, 10000
    >>

\* np.sin and np.cos of whole degrees, times 10000.
Sin(d) ==
    LET t == d % FullTurn
    IN IF t <= 90 THEN SinTable[t + 1]
       ELSE IF t <= HalfTurn THEN SinTable[HalfTurn - t + 1]
       ELSE IF t <= 270 THEN -SinTable[t - HalfTurn + 1]
       ELSE -SinTable[FullTurn - t + 1]
Cos(d) == Sin(d + 90)

\* atan2 to the nearest degree, in (-180, 180]: the direction that the
\* vector (c, s) points in; atan2(0, 0) is 0.
atan2(s, c) ==
    IF s = 0 /\ c = 0 THEN 0
    ELSE CHOOSE d \in (1 - HalfTurn)..HalfTurn :
             LET along(e) == s * Sin(e) + c * Cos(e)
             IN along(d) > 0 /\ along(d) >= along(d - 1) /\ along(d) > along(d + 1)

\* The numpy builds: np.atan2 exists from numpy 2.0 on; before, the
\* attribute lookup raises AttributeError.
NumpyBuilds == {"atan2", "no_atan2"}

\* _x_mean_fn and _z_mean_fn on two sigma points, theta component: the
\* means of sin(theta) * w and cos(theta) * w go to np.atan2. np.mean
\* divides both sums by len(sigmas), which leaves the direction as it is.
\* Where np.atan2 does not exist the call raises instead (RobotMean).
MeanTheta(thetas, Wm) ==
    atan2(Sin(thetas[1]) * Wm[1] + Sin(thetas[2]) * Wm[2],
          Cos(thetas[1]) * Wm[1] + Cos(thetas[2]) * Wm[2])

RobotInit ==
    robot \in {[status |-> "class", numpy |-> n, op |-> "none",
                a |-> <<0, 0>>, b |-> <<0, 0>>, Wm |-> <<1, 1>>, result |-> <<0, 0>>,
                raised |-> "none",
                filter |-> "none"] : n \in NumpyBuilds}

\* RobotFilter(filter_settings): __init__ calls set_state(np.zeros((6, 1)))
\* with no P, and set_state then reads self._setings.position_variance, an
\* attribute that does not exist.
RobotFilterNew ==
    /\ robot.status = "class"
    /\ robot.filter = "none"
    /\ robot' = [robot EXCEPT !.filter = "AttributeError"]
    /\ UNCHANGED <<system_vars, wheel, send_failure, filtering, env, params, geom, ball, feed, periodic, buffer, locks>>

\* One call of _residual_x(a, b) or _residual_z(a, b)
RobotResidual(which, a, b) ==
    /\ robot.status = "class"
    /\ robot.op = "none"
    /\ robot' = [robot EXCEPT !.op = which, !.a = a, !.b = b,
                              !.result = Residual(a, b)]
    /\ UNCHANGED <<system_vars, wheel, send_failure, filtering, env, params, geom, ball, feed, periodic, buffer, locks>>

\* One call of _x_mean_fn(sigmas, Wm) or _z_mean_fn(sigmas, Wm) on two
\* sigma points
RobotMean(which, a, b, Wm) ==
    /\ robot.status = "class"
    /\ robot.op = "none"
    /\ robot' = [robot EXCEPT !.op = which, !.a = a, !.b = b, !.Wm = Wm,
                              !.raised = IF robot.numpy = "no_atan2" THEN "AttributeError"
                                         ELSE "none",
                              !.result = IF robot.numpy = "no_atan2" THEN robot.result
                                         ELSE <<0, MeanTheta(<<a[2], b[2]>>, Wm)>>]
    /\ UNCHANGED <<system_vars, wheel, send_failure, filtering, env, params, geom, ball, feed, periodic, buffer, locks>>

RobotNext ==
    \/ RobotFilterNew
    \/ \E which \in {"_residual_x", "_residual_z"}, ax, bx \in Coordinates,
          at, bt \in AngleInputs : RobotResidual(which, <<ax, at>>, <<bx, bt>>)
    \/ \E which \in {"_x_mean_fn", "_z_mean_fn"}, at, bt \in AngleInputs, w \in Weights :
          RobotMean(which, <<0, at>>, <<0, bt>>, <<w, w>>)

\* ------------------------------------------------- trio cache run loop

\* Number of frames the senders put into the channel.
MaxFeedFrames == 3

NoFeed == [run_pc |-> "none"]

\* trio.open_memory_channel(math.inf) and RawVisionObservations(recv): both
\* ends open, nothing buffered, the cache empty. sent is the history of the
\* frames sent, applied that of the frames run() stored.
FeedInit ==
    feed = [run_pc |-> "idle", recv |-> "open", senders |-> "open", buffer |-> <<>>,
            in_hand |-> None, detections |-> <<>>,
            stats |-> [num_updates |-> 0, last_update_time |-> None],
            sent |-> <<>>, applied |-> <<>>]

\* A buggy receive that ends the loop as soon as the senders have closed.
EndOfChannelEarly(f) == f.senders = "closed"

\* MemoryReceiveChannel.receive raises EndOfChannel, which ends the async
\* for, when nothing is buffered and every sender has closed.
EndOfChannel(f) == f.buffer = <<>> /\ f.senders = "closed"

\* await send.send(detection) on the open channel.
FeedSend(cam) ==
    /\ feed.run_pc # "none"
    /\ feed.senders = "open"
    /\ feed.recv = "open"
    /\ Len(feed.sent) < MaxFeedFrames
    /\ LET frame == [camera_id |-> cam, frame_number |-> Len(feed.sent) + 1]
       IN feed' = [feed EXCEPT !.buffer = Append(@, frame), !.sent = Append(@, frame)]
    /\ UNCHANGED <<system_vars, wheel, send_failure, filtering, env, params, geom, ball, robot, periodic, buffer, locks>>

\* await send.aclose() on the last sender.
FeedSendersClose ==
    /\ feed.run_pc # "none"
    /\ feed.senders = "open"
    /\ feed' = [feed EXCEPT !.senders = "closed"]
    /\ UNCHANGED <<system_vars, wheel, send_failure, filtering, env, params, geom, ball, robot, periodic, buffer, locks>>

\* await recv.aclose() by the owner before run() is called: buffered frames
\* are dropped.
FeedRecvClose ==
    /\ feed.run_pc = "idle"
    /\ feed.recv = "open"
    /\ feed' = [feed EXCEPT !.recv = "closed", !.buffer = <<>>]
    /\ UNCHANGED <<system_vars, wheel, send_failure, filtering, env, params, geom, ball, robot, periodic, buffer, locks>>

\* run(): async with self.detections: async for ...: the first receive on a
\* closed receive channel raises trio.ClosedResourceError, which leaves run().
FeedRun ==
    /\ feed.run_pc = "idle"
    /\ feed' = [feed EXCEPT !.run_pc = IF feed.recv = "closed" THEN "ClosedResourceError"
                                       ELSE "loop"]
    /\ UNCHANGED <<system_vars, wheel, send_failure, filtering, env, params, geom, ball, robot, periodic, buffer, locks>>

\* async for detection in self.detections: the oldest buffered frame comes
\* out; or the channel is at its end, the loop ends, the async with closes
\* the receive channel and run() returns; or the receive waits.
FeedReceive ==
    /\ feed.run_pc = "loop"
    /\ IF EndOfChannel(feed)
       THEN feed' = [feed EXCEPT !.run_pc = "done", !.recv = "closed", !.buffer = <<>>]
       ELSE /\ feed.buffer # <<>>
            /\ feed' = [feed EXCEPT !.run_pc = "locked", !.in_hand = Some(Head(feed.buffer)),
                                    !.buffer = Tail(@)]
    /\ UNCHANGED <<system_vars, wheel, send_failure, filtering, env, params, geom, ball, robot, periodic, buffer, locks>>

\* async with self.__detection_lock: frame = self.__detections[camera_id];
\* frame.CopyFrom(detection); then num_updates += 1 and last_update_time =
\* trio.current_time() (here the number of the update).
FeedUpdate ==
    /\ feed.run_pc = "locked"
    /\ LET detection == feed.in_hand[1]
       IN feed' = [feed EXCEPT !.detections = (detection.camera_id :> detection) @@ @,
                               !.stats = [num_updates |-> @.num_updates + 1,
                                          last_update_time |-> Some(@.num_updates + 1)],
                               !.applied = Append(@, detection),
                               !.in_hand = None,
                               !.run_pc = "loop"]
    /\ UNCHANGED <<system_vars, wheel, send_failure, filtering, env, params, geom, ball, robot, periodic, buffer, locks>>

FeedNext ==
    \/ \E cam \in CameraIds : FeedSend(cam)
    \/ FeedSendersClose
    \/ FeedRecvClose
    \/ FeedRun
    \/ FeedReceive
    \/ FeedUpdate

\* ------------------------------------------------- trio dispatcher periodic run

\* The clock runs from 0 to MaxTime.
MaxTime == 3
\* Number of run() calls on one client.
MaxRuns == 2
\* The period passed to run(), in clock ticks.
Periods == {1, 2}

\* The actions set while the clock runs: those of robot 0.
PeriodicActions == {a \in RawMovementAction : a.robot_id = 0}

NoPeriodic == [run_pc |-> "none"]

\* RawMovementActionClient(radio): an empty RobotCommands buffer, no run.
\* streams: per run() call, the stream opened on the radio stub of that run,
\* with the time it was opened, the messages sent on it with their times and
\* the number of times it was closed (history). last_set is what the latest
\* set_action / reset_action made of the buffer (history).
PeriodicInit ==
    periodic \in {[run_pc |-> "idle", period |-> p, now |-> 0, next_tick |-> 0,
                   action_message |-> EmptyMessage, last_set |-> EmptyMessage,
                   writes |-> 0, streams |-> <<>>] : p \in Periods}

\* A buggy periodic loop that waits a period before its first iteration.
FirstTickLate(now, period) == now + period

\* trio_util.periodic(period) yields at once, then every period.
FirstTick(now, period) == now

\* set_action(action): action.to_proto(self._action_message) under the lock.
PeriodicSetAction(a) ==
    /\ periodic.run_pc \in {"idle", "loop"}
    /\ periodic.writes < MaxCalls
    /\ periodic' = [periodic EXCEPT !.action_message = to_proto(a, @),
                                    !.last_set = to_proto(a, periodic.action_message),
                                    !.writes = @ + 1]
    /\ UNCHANGED <<system_vars, wheel, send_failure, filtering, env, params, geom, ball, robot, feed, buffer, locks>>

\* reset_action(): self._action_message.Clear() under the lock.
PeriodicResetAction ==
    /\ periodic.run_pc \in {"idle", "loop"}
    /\ periodic.writes < MaxCalls
    /\ periodic' = [periodic EXCEPT !.action_message = EmptyMessage,
                                    !.last_set = EmptyMessage,
                                    !.writes = @ + 1]
    /\ UNCHANGED <<system_vars, wheel, send_failure, filtering, env, params, geom, ball, robot, feed, buffer, locks>>

\* run(period): async with self.radio.CommandStream.open() as stream: the
\* stream of this run is opened and the periodic loop entered.
PeriodicRun ==
    /\ periodic.run_pc = "idle"
    /\ Len(periodic.streams) < MaxRuns
    /\ periodic' = [periodic EXCEPT !.run_pc = "loop",
                                    !.next_tick = FirstTick(periodic.now, periodic.period),
                                    !.streams = Append(@, [opened |-> periodic.now, sent |-> <<>>,
                                                           closed |-> 0])]
    /\ UNCHANGED <<system_vars, wheel, send_failure, filtering, env, params, geom, ball, robot, feed, buffer, locks>>

\* One iteration of the loop, when its time has come: the lock is taken,
\* stream.send_message(self._action_message) sends the buffer, the lock is
\* released; the next iteration is a period later.
PeriodicTick ==
    /\ periodic.run_pc = "loop"
    /\ periodic.now = periodic.next_tick
    /\ periodic' = [periodic EXCEPT
           !.streams[Len(periodic.streams)].sent =
               Append(@, [time |-> periodic.now, message |-> periodic.action_message]),
           !.next_tick = @ + periodic.period]
    /\ UNCHANGED <<system_vars, wheel, send_failure, filtering, env, params, geom, ball, robot, feed, buffer, locks>>

\* The clock moves on when no task can run: not while an iteration is due.
PeriodicTime ==
    /\ periodic.run_pc # "none"
    /\ periodic.now < MaxTime
    /\ periodic.run_pc = "loop" => periodic.now < periodic.next_tick
    /\ periodic' = [periodic EXCEPT !.now = @ + 1]
    /\ UNCHANGED <<system_vars, wheel, send_failure, filtering, env, params, geom, ball, robot, feed, buffer, locks>>

\* run() is cancelled while it waits for its next iteration: the
\* Cancelled exception leaves the async with, which closes the stream.
PeriodicCancel ==
    /\ periodic.run_pc = "loop"
    /\ periodic' = [periodic EXCEPT !.run_pc = "idle",
                                    !.streams[Len(periodic.streams)].closed = @ + 1]
    /\ UNCHANGED <<system_vars, wheel, send_failure, filtering, env, params, geom, ball, robot, feed, buffer, locks>>

PeriodicNext ==
    \/ \E a \in PeriodicActions : PeriodicSetAction(a)
    \/ PeriodicResetAction
    \/ PeriodicRun
    \/ PeriodicTick
    \/ PeriodicTime
    \/ PeriodicCancel

\* ------------------------------------------ threaded command buffer references

\* Number of action objects the callers build.
MaxActionObjects == 2
\* Number of current_action calls, of ticks, and of writes by callers into
\* objects they hold.
MaxBufferReads == 2

NoBuffer == [pc |-> "none"]

\* The actions a map of references stands for: per robot the object's content.
Deref(objects, refs) == [r \in DOMAIN refs |-> objects[refs[r]]]

\* The packet a tick builds from a map robot_id -> action.
Encode(d) == [r \in DOMAIN d |-> EncodeVelocities(d[r].wheel_velocities)]

\* RawMovementActionClient(radio, action_period): self._actions = {}.
\* objects: the RawMovementAction objects callers have built, with their
\* current content; actions: self._actions, robot_id -> object; stored: what
\* set_action / reset_action made of the buffer, by value (history); got: the
\* maps current_action returned, as returned, as the caller holds them now,
\* and the buffer by value at that time (history); sent: the packets of the
\* ticks with the buffer by value at that time (history).
BufferInit ==
    buffer = [pc |-> "ready", objects |-> <<>>, actions |-> <<>>, stored |-> <<>>,
              got |-> <<>>, sent |-> <<>>, writes |-> 0, last_set_action_time |-> None]

\* self._actions[action.robot_id] = action: the caller's object itself is
\* stored, here the newest of the objects.
StoreReference(objects, a) == Append(objects, a)

\* set_action(action) with an action object the caller has just built.
BufferSetAction(a) ==
    /\ buffer.pc = "ready"
    /\ Len(buffer.objects) < MaxActionObjects
    /\ LET objs == StoreReference(buffer.objects, a)
       IN buffer' = [buffer EXCEPT
              !.objects = objs,
              !.actions = (a.robot_id :> Len(objs)) @@ @,
              !.stored = (a.robot_id :> a) @@ @,
              !.last_set_action_time = Some(Len(objs))]
    /\ UNCHANGED <<system_vars, wheel, send_failure, filtering, env, params, geom, ball, robot,
                   feed, periodic, locks>>

\* reset_action(): self._actions.clear()
BufferResetAction ==
    /\ buffer.pc = "ready"
    /\ buffer.actions # <<>>
    /\ buffer' = [buffer EXCEPT !.actions = <<>>, !.stored = <<>>,
                                !.last_set_action_time = Some(Len(buffer.objects))]
    /\ UNCHANGED <<system_vars, wheel, send_failure, filtering, env, params, geom, ball, robot,
                   feed, periodic, locks>>

\* current_action: return deepcopy(self._actions) under the lock.
BufferCurrentAction ==
    /\ buffer.pc = "ready"
    /\ Len(buffer.got) < MaxBufferReads
    /\ buffer' = [buffer EXCEPT !.got =
           Append(@, [returned |-> Deref(buffer.objects, buffer.actions),
                      held |-> Deref(buffer.objects, buffer.actions),
                      stored |-> buffer.stored])]
    /\ UNCHANGED <<system_vars, wheel, send_failure, filtering, env, params, geom, ball, robot,
                   feed, periodic, locks>>

\* One iteration of __generate_actions: command.to_proto(action_message) for
\* every command in self._actions.values(), under the lock.
BufferTick ==
    /\ buffer.pc = "ready"
    /\ Len(buffer.sent) < MaxBufferReads
    /\ buffer' = [buffer EXCEPT !.sent =
           Append(@, [message |-> Encode(Deref(buffer.objects, buffer.actions)),
                      stored |-> buffer.stored])]
    /\ UNCHANGED <<system_vars, wheel, send_failure, filtering, env, params, geom, ball, robot,
                   feed, periodic, locks>>

\* RawMovementAction is a mutable dataclass holding a numpy array: a caller
\* writes into the wheel_velocities of an action object it built and passed
\* to set_action.
CallerMutatesAction(i, w) ==
    /\ buffer.pc = "ready"
    /\ buffer.writes < MaxBufferReads
    /\ i \in DOMAIN buffer.objects
    /\ buffer.objects[i].wheel_velocities # w
    /\ buffer' = [buffer EXCEPT !.objects[i].wheel_velocities = w, !.writes = @ + 1]
    /\ UNCHANGED <<system_vars, wheel, send_failure, filtering, env, params, geom, ball, robot,
                   feed, periodic, locks>>

\* A caller writes into an action of a map current_action returned to it.
CallerMutatesCopy(g, r, w) ==
    /\ buffer.pc = "ready"
    /\ buffer.writes < MaxBufferReads
    /\ g \in DOMAIN buffer.got
    /\ r \in DOMAIN buffer.got[g].held
    /\ buffer.got[g].held[r].wheel_velocities # w
    /\ buffer' = [buffer EXCEPT !.got[g].held[r].wheel_velocities = w, !.writes = @ + 1]
    /\ UNCHANGED <<system_vars, wheel, send_failure, filtering, env, params, geom, ball, robot,
                   feed, periodic, locks>>

BufferNext ==
    \/ \E a \in RawMovementAction : BufferSetAction(a)
    \/ BufferResetAction
    \/ BufferCurrentAction
    \/ BufferTick
    \/ \E i \in 1..MaxActionObjects, w \in WheelVelocityChoices : CallerMutatesAction(i, w)
    \/ \E g \in 1..MaxBufferReads, r \in RobotIds, w \in WheelVelocityChoices :
           CallerMutatesCopy(g, r, w)

\* ------------------------------------------------- threaded lock discipline

\* Number of operations each thread runs.
MaxLockCalls == 2

NoLocks == [component |-> "none"]

\* The threads of one component: its loop (the tick generator of the
\* dispatcher, the receive loop of the cache) and two callers.
LockThreads == {"loop"} \cup Callers

\* The locks: the buffer / cache lock (self._actions_lock,
\* self.__detections_lock) and the statistics lock (self._stats_lock).
Acquire(l) == [do |-> "acquire", lock |-> l]
Release(l) == [do |-> "release", lock |-> l]

\* A buggy discipline: the statistics are updated inside the first block.
LockStepsNested(op) ==
    IF op \in {"set_action", "reset_action", "tick"}
    THEN <<Acquire("data"), Acquire("stats"), Release("stats"), Release("data")>>
    ELSE IF op = "receive"
    THEN <<Acquire("stats"), Acquire("data"), Release("data"), Release("stats")>>
    ELSE IF op \in {"current_action", "get_latest"}
    THEN <<Acquire("data"), Release("data")>>
    ELSE <<Acquire("stats"), Release("stats")>>

\* The with blocks of each operation, in the order the code enters and
\* leaves them. receive is one pass of the receive loop on a packet with a
\* detection, receive_other on a decoded packet without one.
LockSteps(op) ==
    IF op \in {"set_action", "reset_action", "tick"}
    THEN <<Acquire("data"), Release("data"), Acquire("stats"), Release("stats")>>
    ELSE IF op = "receive"
    THEN <<Acquire("stats"), Release("stats"), Acquire("data"), Release("data")>>
    ELSE IF op \in {"current_action", "get_latest"}
    THEN <<Acquire("data"), Release("data")>>
    ELSE <<Acquire("stats"), Release("stats")>>

\* The operations a thread of a component runs.
LockOps(component, t) ==
    IF component = "dispatcher"
    THEN IF t = "loop" THEN {"tick"}
         ELSE {"set_action", "reset_action", "current_action", "statistics"}
    ELSE IF t = "loop" THEN {"receive", "receive_other"}
         ELSE {"get_latest", "statistics"}

\* The locks thread t holds.
HeldBy(t) == {l \in DOMAIN locks.holder : locks.holder[l] = t}

\* A component after construction: both locks free, no operation running.
\* raised: the threads whose latest operation ended with an exception.
LocksInit ==
    locks \in {[component |-> c,
                holder |-> [l \in {"data", "stats"} |-> "free"],
                op |-> [t \in LockThreads |-> "idle"],
                pc |-> [t \in LockThreads |-> 0],
                calls |-> [t \in LockThreads |-> 0],
                raised |-> {}] : c \in {"dispatcher", "cache"}}

\* A thread enters an operation: a caller calls a method, the loop starts
\* its next pass. A loop that ended with an exception runs no more passes.
LockCall(t, op) ==
    /\ locks.component # "none"
    /\ locks.op[t] = "idle"
    /\ locks.calls[t] < MaxLockCalls
    /\ op \in LockOps(locks.component, t)
    /\ ~(t = "loop" /\ t \in locks.raised)
    /\ locks' = [locks EXCEPT !.op[t] = op, !.pc[t] = 1, !.calls[t] = @ + 1,
                              !.raised = @ \ {t}]
    /\ UNCHANGED <<system_vars, wheel, send_failure, filtering, env, params, geom, ball, robot,
                   feed, periodic, buffer>>

\* The position after step pc of an operation: idle after the last.
AfterStep(l, t) ==
    IF l.pc[t] = Len(LockSteps(l.op[t]))
    THEN [l EXCEPT !.op[t] = "idle", !.pc[t] = 0]
    ELSE [l EXCEPT !.pc[t] = @ + 1]

\* with lock: the thread takes the lock when it is free.
LockAcquire(t) ==
    /\ locks.component # "none"
    /\ locks.op[t] # "idle"
    /\ LET step == LockSteps(locks.op[t])[locks.pc[t]]
       IN /\ step.do = "acquire"
          /\ locks.holder[step.lock] = "free"
          /\ locks' = AfterStep([locks EXCEPT !.holder[step.lock] = t], t)
    /\ UNCHANGED <<system_vars, wheel, send_failure, filtering, env, params, geom, ball, robot,
                   feed, periodic, buffer>>

\* The end of a with block: the lock is released.
LockRelease(t) ==
    /\ locks.component # "none"
    /\ locks.op[t] # "idle"
    /\ LET step == LockSteps(locks.op[t])[locks.pc[t]]
       IN /\ step.do = "release"
          /\ locks' = AfterStep([locks EXCEPT !.holder[step.lock] = "free"], t)
    /\ UNCHANGED <<system_vars, wheel, send_failure, filtering, env, params, geom, ball, robot,
                   feed, periodic, buffer>>

\* An exception inside a with block (to_proto, deepcopy, CopyFrom): the
\* with statements release the locks held on the way out and the operation
\* ends.
LockRaise(t) ==
    /\ locks.component # "none"
    /\ locks.op[t] # "idle"
    /\ HeldBy(t) # {}
    /\ locks' = [locks EXCEPT !.holder = [l \in DOMAIN @ |-> IF @[l] = t THEN "free" ELSE @[l]],
                              !.op[t] = "idle", !.pc[t] = 0, !.raised = @ \cup {t}]
    /\ UNCHANGED <<system_vars, wheel, send_failure, filtering, env, params, geom, ball, robot,
                   feed, periodic, buffer>>

LocksNext ==
    \/ \E t \in LockThreads, op \in {"tick", "receive", "receive_other", "set_action",
                                     "reset_action", "current_action", "get_latest",
                                     "statistics"} : LockCall(t, op)
    \/ \E t \in LockThreads : LockAcquire(t)
    \/ \E t \in LockThreads : LockRelease(t)
    \/ \E t \in LockThreads : LockRaise(t)

\* No function-level scenario is running.
FunctionsIdle ==
    /\ wheel = NoWheel
    /\ send_failure = "none"
    /\ filtering = NoFiltering
    /\ env = NoEnv
    /\ params = NoParams
    /\ geom = NoGeom
    /\ ball = NoBall
    /\ robot = NoRobot
    /\ feed = NoFeed
    /\ periodic = NoPeriodic
    /\ buffer = NoBuffer
    /\ locks = NoLocks

\* ---------------------------------------------------------- specifications

\* The state after construction of a subsystem that a specification leaves alone.
\* ------------------------------------------------------------ statistics()

\* Nothing has been returned yet.
NoReturned == [target |-> "none", ref |-> FALSE, value |-> None, calls |-> 0]

\* The live statistics struct of the dispatcher or of the cache.
Live(target) ==
    IF target = "actions" THEN (IF variant = "trio" THEN trio.stats ELSE stats)
    ELSE cache_stats

\* deepcopy(self._stats): a new struct with the same field values.
Deepcopy(target) ==
    [target |-> target, ref |-> FALSE, value |-> Some(Live(target)), calls |-> returned.calls + 1]

\* return self._stats: the live struct itself.
SameObject(target) ==
    [target |-> target, ref |-> TRUE, value |-> None, calls |-> returned.calls + 1]

\* ThreadedActionClient.statistics()
Statistics ==
    /\ variant = "threaded"
    /\ returned.calls < MaxStatisticsCalls
    /\ returned' = Deepcopy("actions")
    /\ UNCHANGED <<dispatcher_vars, cache_vars, fanout_vars, function_vars>>

\* The trio RawMovementActionClient.statistics()
TrioStatistics ==
    /\ variant = "trio"
    /\ returned.calls < MaxStatisticsCalls
    /\ returned' = SameObject("actions")
    /\ UNCHANGED <<dispatcher_vars, cache_vars, fanout_vars, function_vars>>

\* ThreadedObservation.statistics()
CacheStatistics ==
    /\ cache_variant = "threaded"
    /\ returned.calls < MaxStatisticsCalls
    /\ returned' = Deepcopy("observations")
    /\ UNCHANGED <<dispatcher_vars, cache_vars, fanout_vars, function_vars>>

\* The trio RawVisionObservations.statistics()
TrioCacheStatistics ==
    /\ cache_variant = "trio"
    /\ returned.calls < MaxStatisticsCalls
    /\ returned' = SameObject("observations")
    /\ UNCHANGED <<dispatcher_vars, cache_vars, fanout_vars, function_vars>>

\* The value a caller writes into the counter of the struct it was given; the
\* program itself never produces it.
Tampered == -1

\* The counter field of a statistics struct.
WithCounter(s, n) ==
    IF "num_sent" \in DOMAIN s THEN [s EXCEPT !.num_sent = n] ELSE [s EXCEPT !.num_updates = n]

\* The statistics structs are plain mutable dataclasses: the caller assigns
\* to a field of the object statistics() gave it.
CallerMutates ==
    /\ returned.target # "none"
    /\ IF returned.ref
       THEN /\ IF returned.target = "observations"
               THEN /\ cache_stats' = WithCounter(cache_stats, Tampered)
                    /\ UNCHANGED trio
               ELSE /\ trio' = [trio EXCEPT !.stats = WithCounter(@, Tampered)]
                    /\ UNCHANGED cache_stats
            /\ UNCHANGED returned
       ELSE /\ returned.value[1] # WithCounter(returned.value[1], Tampered)
            /\ returned' = [returned EXCEPT !.value = Some(WithCounter(@[1], Tampered))]
            /\ UNCHANGED <<trio, cache_stats>>
    /\ UNCHANGED <<threaded_vars, fanout_vars, function_vars>>
    /\ UNCHANGED <<cache_variant, detections, heap, cache_stop, recv_pc, datagram,
                   cache_lock, reader_pc, num_datagrams, malformed_seen, updated, reads>>

DispatcherIdle == DispatcherInit /\ variant = "threaded"
CacheIdle == CacheInit /\ cache_variant = "threaded"

\* The Action Dispatcher, threaded or trio.
InitDispatcherSpec ==
    /\ DispatcherInit
    /\ CacheIdle
    /\ FanoutInit
    /\ returned = NoReturned
    /\ FunctionsIdle
SpecDispatcher == InitDispatcherSpec /\ [][DispatcherNext]_vars

\* The Observation Cache, threaded or trio.
InitCacheSpec ==
    /\ DispatcherIdle
    /\ CacheInit
    /\ FanoutInit
    /\ returned = NoReturned
    /\ FunctionsIdle
SpecCache == InitCacheSpec /\ [][CacheNext]_vars

\* The multicast receiver with fan-out.
InitFanoutSpec ==
    /\ DispatcherIdle
    /\ CacheIdle
    /\ FanoutInit
    /\ returned = NoReturned
    /\ FunctionsIdle
SpecFanout == InitFanoutSpec /\ [][FanoutNext]_vars

\* The receiver with fan-out and subscribers that come during rounds.
InitSubscribeSpec ==
    /\ DispatcherIdle
    /\ CacheIdle
    /\ FanoutInit
    /\ returned = NoReturned
    /\ FunctionsIdle
SpecSubscribe == InitSubscribeSpec /\ [][SubscribeNext]_vars

\* The statistics of both components. The dispatcher and the cache share no
\* state; a behaviour runs one of them while the other has not been started.
InitStatisticsSpec ==
    /\ DispatcherInit
    /\ CacheInit
    /\ FanoutInit
    /\ returned = NoReturned
    /\ FunctionsIdle
StatisticsNext ==
    \/ (CacheInit /\ DispatcherNext)
    \/ (DispatcherInit /\ CacheNext)
SpecStatistics == InitStatisticsSpec /\ [][StatisticsNext]_vars

\* The statistics accessors and their callers, next to the running component.
InitSnapshotSpec ==
    /\ DispatcherInit
    /\ CacheInit
    /\ FanoutInit
    /\ returned = NoReturned
    /\ FunctionsIdle
SnapshotNext ==
    \/ StatisticsNext
    \/ Statistics
    \/ TrioStatistics
    \/ CacheStatistics
    \/ TrioCacheStatistics
    \/ CallerMutates
SpecSnapshot == InitSnapshotSpec /\ [][SnapshotNext]_vars

\* The wire encoding of one wheel velocity.
InitEncodingSpec ==
    /\ DispatcherIdle
    /\ CacheIdle
    /\ FanoutInit
    /\ returned = NoReturned
    /\ WheelInit
    /\ send_failure = "none"
    /\ filtering = NoFiltering
    /\ env = NoEnv
    /\ params = NoParams
    /\ geom = NoGeom
    /\ ball = NoBall
    /\ robot = NoRobot
    /\ feed = NoFeed
    /\ periodic = NoPeriodic
    /\ buffer = NoBuffer
    /\ locks = NoLocks
SpecEncoding == InitEncodingSpec /\ [][EncodingNext]_vars

\* The environment's state construction from one raw detection map.
InitFilteringSpec ==
    /\ DispatcherIdle
    /\ CacheIdle
    /\ FanoutInit
    /\ returned = NoReturned
    /\ wheel = NoWheel
    /\ send_failure = "none"
    /\ FilteringInit
    /\ env = NoEnv
    /\ params = NoParams
    /\ geom = NoGeom
    /\ ball = NoBall
    /\ robot = NoRobot
    /\ feed = NoFeed
    /\ periodic = NoPeriodic
    /\ buffer = NoBuffer
    /\ locks = NoLocks
SpecFiltering == InitFilteringSpec /\ [][FilteringNext]_vars

\* The environment's reset() and step() above a receiver and a dispatcher.
InitEnvSpec ==
    /\ DispatcherIdle
    /\ CacheIdle
    /\ FanoutInit
    /\ returned = NoReturned
    /\ wheel = NoWheel
    /\ send_failure = "none"
    /\ filtering = NoFiltering
    /\ EnvInit
    /\ params = NoParams
    /\ geom = NoGeom
    /\ ball = NoBall
    /\ robot = NoRobot
    /\ feed = NoFeed
    /\ periodic = NoPeriodic
    /\ buffer = NoBuffer
    /\ locks = NoLocks
SpecEnv == InitEnvSpec /\ [][EnvNext]_vars

\* The threaded environment's constructor and property setters.
InitParamsSpec ==
    /\ DispatcherIdle
    /\ CacheIdle
    /\ FanoutInit
    /\ returned = NoReturned
    /\ wheel = NoWheel
    /\ send_failure = "none"
    /\ filtering = NoFiltering
    /\ env = NoEnv
    /\ ParamsInit
    /\ geom = NoGeom
    /\ ball = NoBall
    /\ robot = NoRobot
    /\ feed = NoFeed
    /\ periodic = NoPeriodic
    /\ buffer = NoBuffer
    /\ locks = NoLocks
SpecParams == InitParamsSpec /\ [][ParamsNext]_vars

\* The visualizer's field geometry accessors with concurrent callers.
InitGeometrySpec ==
    /\ DispatcherIdle
    /\ CacheIdle
    /\ FanoutInit
    /\ returned = NoReturned
    /\ wheel = NoWheel
    /\ send_failure = "none"
    /\ filtering = NoFiltering
    /\ env = NoEnv
    /\ params = NoParams
    /\ GeomInit
    /\ ball = NoBall
    /\ robot = NoRobot
    /\ feed = NoFeed
    /\ periodic = NoPeriodic
    /\ buffer = NoBuffer
    /\ locks = NoLocks
SpecGeometry == InitGeometrySpec /\ [][GeometryNext]_vars

\* The ball filter's constructor and predict.
InitBallSpec ==
    /\ DispatcherIdle
    /\ CacheIdle
    /\ FanoutInit
    /\ returned = NoReturned
    /\ wheel = NoWheel
    /\ send_failure = "none"
    /\ filtering = NoFiltering
    /\ env = NoEnv
    /\ params = NoParams
    /\ geom = NoGeom
    /\ BallInit
    /\ robot = NoRobot
    /\ feed = NoFeed
    /\ periodic = NoPeriodic
    /\ buffer = NoBuffer
    /\ locks = NoLocks
SpecBall == InitBallSpec /\ [][BallNext]_vars

\* The robot filter's residual and mean functions.
InitRobotSpec ==
    /\ DispatcherIdle
    /\ CacheIdle
    /\ FanoutInit
    /\ returned = NoReturned
    /\ wheel = NoWheel
    /\ send_failure = "none"
    /\ filtering = NoFiltering
    /\ env = NoEnv
    /\ params = NoParams
    /\ geom = NoGeom
    /\ ball = NoBall
    /\ RobotInit
    /\ feed = NoFeed
    /\ periodic = NoPeriodic
    /\ buffer = NoBuffer
    /\ locks = NoLocks
SpecRobot == InitRobotSpec /\ [][RobotNext]_vars

\* The trio cache's run() on its channel. A task that can run is scheduled:
\* the receive and the update of run() are taken when they stay possible.
InitFeedSpec ==
    /\ DispatcherIdle
    /\ CacheIdle
    /\ FanoutInit
    /\ returned = NoReturned
    /\ wheel = NoWheel
    /\ send_failure = "none"
    /\ filtering = NoFiltering
    /\ env = NoEnv
    /\ params = NoParams
    /\ geom = NoGeom
    /\ ball = NoBall
    /\ robot = NoRobot
    /\ FeedInit
    /\ periodic = NoPeriodic
    /\ buffer = NoBuffer
    /\ locks = NoLocks
SpecFeed ==
    InitFeedSpec /\ [][FeedNext]_vars /\ WF_vars(FeedReceive) /\ WF_vars(FeedUpdate)

\* The trio dispatcher's run() against a clock, cancelled and run again.
InitPeriodicSpec ==
    /\ DispatcherIdle
    /\ CacheIdle
    /\ FanoutInit
    /\ returned = NoReturned
    /\ wheel = NoWheel
    /\ send_failure = "none"
    /\ filtering = NoFiltering
    /\ env = NoEnv
    /\ params = NoParams
    /\ geom = NoGeom
    /\ ball = NoBall
    /\ robot = NoRobot
    /\ feed = NoFeed
    /\ PeriodicInit
    /\ buffer = NoBuffer
    /\ locks = NoLocks
SpecPeriodic == InitPeriodicSpec /\ [][PeriodicNext]_vars

\* The threaded dispatcher's buffer with callers that keep and write into
\* the action objects they passed in and the maps they got back.
InitBufferSpec ==
    /\ DispatcherIdle
    /\ CacheIdle
    /\ FanoutInit
    /\ returned = NoReturned
    /\ wheel = NoWheel
    /\ send_failure = "none"
    /\ filtering = NoFiltering
    /\ env = NoEnv
    /\ params = NoParams
    /\ geom = NoGeom
    /\ ball = NoBall
    /\ robot = NoRobot
    /\ feed = NoFeed
    /\ periodic = NoPeriodic
    /\ BufferInit
    /\ locks = NoLocks
SpecBuffer == InitBufferSpec /\ [][BufferNext]_vars

\* The locks of a threaded component under its loop and two callers.
InitLocksSpec ==
    /\ DispatcherIdle
    /\ CacheIdle
    /\ FanoutInit
    /\ returned = NoReturned
    /\ wheel = NoWheel
    /\ send_failure = "none"
    /\ filtering = NoFiltering
    /\ env = NoEnv
    /\ params = NoParams
    /\ geom = NoGeom
    /\ ball = NoBall
    /\ robot = NoRobot
    /\ feed = NoFeed
    /\ periodic = NoPeriodic
    /\ buffer = NoBuffer
    /\ LocksInit
SpecLocks == InitLocksSpec /\ [][LocksNext]_vars

\* The threaded environment on a dispatcher whose command stream can end.
\* The dispatcher thread is scheduled: the wait loop of run() that can leave
\* does leave.
InitStreamEndsSpec ==
    /\ DispatcherIdle
    /\ CacheIdle
    /\ FanoutInit
    /\ returned = NoReturned
    /\ wheel = NoWheel
    /\ send_failure = "none"
    /\ filtering = NoFiltering
    /\ EnvAttached
    /\ params = NoParams
    /\ geom = NoGeom
    /\ ball = NoBall
    /\ robot = NoRobot
    /\ feed = NoFeed
    /\ periodic = NoPeriodic
    /\ buffer = NoBuffer
    /\ locks = NoLocks
SpecStreamEnds ==
    InitStreamEndsSpec /\ [][StreamEndsNext]_vars /\ WF_vars(RunExit) /\ WF_vars(RunExitFailed)

\* The Action Dispatcher on a command stream that can fail.
InitSendFailureSpec ==
    /\ DispatcherInit
    /\ CacheIdle
    /\ FanoutInit
    /\ returned = NoReturned
    /\ FunctionsIdle
SpecSendFailure == InitSendFailureSpec /\ [][SendFailureNext]_vars

\* The Action Dispatcher with callers that also pass negative robot ids.
InitValidationSpec ==
    /\ DispatcherInit
    /\ CacheIdle
    /\ FanoutInit
    /\ returned = NoReturned
    /\ FunctionsIdle
ValidationNext ==
    \/ DispatcherNext
    \/ \E c \in Callers, a \in InvalidActions : SetActionWrite(c, a)
SpecValidation == InitValidationSpec /\ [][ValidationNext]_vars

\* ------------------------------------------------- claims: Action Dispatcher

\* The command set that last-write-wins prescribes: for each robot with a
\* set_action since the latest reset_action, the encoding of its latest action.
ExpectedMessage(lw) ==
    [r \in {q \in RobotIds : lw[q] # None} |-> EncodeVelocities(lw[r][1].wheel_velocities)]

\* The encoding of a whole buffer content.
EncodeBuffer(d) ==
    [r \in {d[i].robot_id : i \in DOMAIN d} |->
        EncodeVelocities(d[KeyIndex(d, r)].wheel_velocities)]

\* C1: last-write-wins. Every packet sent on a tick holds, for each robot,
\* the encoding of the latest set_action whose buffer write was done before
\* the tick took its snapshot (since the latest reset_action), and nothing
\* for the other robots; the snapshots of successive packets never go back
\* in the order of the writes, so no older value is sent after a newer one.
C1_LastWriteWins ==
    /\ \A i \in DOMAIN sent :
         sent[i].message = ExpectedMessage(sent[i].snap.last_write)
    /\ \A i, j \in DOMAIN sent :
         i < j => sent[i].snap.writes <= sent[j].snap.writes

\* C1 witness: two packets were sent, both with an entry for robot 0 and
\* with different values for it: robot 0 was overwritten between the two
\* snapshots and the second packet carries the later value.
C1_Witness ==
    /\ Len(sent) = 2
    /\ 0 \in DOMAIN sent[1].message
    /\ 0 \in DOMAIN sent[2].message
    /\ sent[1].message[0] # sent[2].message[0]
    /\ sent[2].snap.writes = 2

\* C2: every packet whose snapshot was taken after a reset_action and before
\* the next set_action is the empty command set, whatever the thread state
\* the reset was made in.
C2_ResetThenEmpty ==
    \A i \in DOMAIN sent :
        sent[i].snap.last_op.op = "reset" => sent[i].message = EmptyMessage

\* C2 witness: a packet with a command for some robot was sent, then
\* reset_action was called while the dispatcher was running, and the next
\* packet was sent after that reset.
C2_Witness ==
    /\ Len(sent) = 2
    /\ sent[1].message # EmptyMessage
    /\ sent[2].snap.last_op = [op |-> "reset", state |-> "Running"]

\* C3: every packet is the encoding of the whole buffer as it was at the
\* instant the tick took the lock: in the threaded client the buffer does not
\* change while the generator encodes it, and the message under construction
\* is the encoding of the entries gone through so far; in the trio client the
\* buffer message does not change while run() holds the lock for the send.
C3_SnapshotAtomic ==
    /\ \A i \in DOMAIN sent :
         sent[i].message = EncodeBuffer(sent[i].snap.actions)
    /\ gen_pc = "locked" =>
         /\ actions = snap.actions
         /\ action_message = EncodeBuffer(SubSeq(actions, 1, gen_i - 1))
    /\ \A i \in DOMAIN trio.sent : trio.sent[i].message = trio.sent[i].snap
    /\ trio.run_pc \in {"locked", "sending"} => trio.action_message = trio.snap

\* C3 witness: a packet with a command is about to be handed to the stream
\* and a caller has written the buffer since its snapshot.
C3_Witness ==
    /\ gen_pc = "yield"
    /\ action_message # EmptyMessage
    /\ writes > snap.writes
    /\ actions # snap.actions

\* ------------------------------------------------- claims: Observation Cache

\* The values of a sequence.
Range(seq) == {seq[i] : i \in DOMAIN seq}

\* C4: a read with no update stored since the previous read (or since
\* construction) returns an empty map, and from a read until the next update
\* the internal per-camera map is empty.
C4_ReadTwiceEmpty ==
    /\ \A i \in DOMAIN reads : reads[i].updated = <<>> => reads[i].result = <<>>
    /\ updated = <<>> => detections = <<>>

\* Two reads, the first returned a frame, no update came before the second.
C4_Witness ==
    /\ Len(reads) = 2
    /\ reads[1].result # <<>>
    /\ reads[2].updated = <<>>
    /\ num_datagrams >= 1

\* C5: exactly-once-per-read consumption. A read returns an entry for exactly
\* the cameras updated since the previous read; no frame is returned by two
\* reads; a frame object handed out by a read is no longer in the map, so no
\* later read returns it and no later update changes it.
C5_ExactlyOncePerRead ==
    /\ \A i \in DOMAIN reads : DOMAIN reads[i].result = DOMAIN reads[i].updated
    /\ \A i, j \in DOMAIN reads : i < j =>
          \A c1 \in DOMAIN reads[i].result, c2 \in DOMAIN reads[j].result :
              reads[i].result[c1].frame_number # reads[j].result[c2].frame_number
    /\ \A i \in DOMAIN reads : \A cam \in DOMAIN reads[i].objects :
          LET obj == reads[i].objects[cam]
          IN obj # 0 => /\ \A c2 \in DOMAIN detections : detections[c2] # obj
                        /\ heap[obj] = reads[i].result[cam]

\* Two reads that both returned the same camera, with different frames, while
\* another camera updated before the first read is absent from the second.
C5_Witness ==
    /\ Len(reads) = 2
    /\ DOMAIN reads[1].result = {0, 1}
    /\ DOMAIN reads[2].result = {1}
    /\ reads[1].result[1].frame_number < reads[2].result[1].frame_number

\* C6: overwrite, not accumulate. A read returns, for every camera that got
\* frames since the previous read, exactly the last of them, and nothing else.
C6_OverwriteNotAccumulate ==
    \A i \in DOMAIN reads : reads[i].result = reads[i].updated

\* Three frames with robots for one camera before the first read, which
\* returned the third.
C6_Witness ==
    /\ Len(reads) >= 1
    /\ DOMAIN reads[1].result = {1}
    /\ reads[1].result[1] = [camera_id |-> 1, frame_number |-> 3, robots |-> <<0>>]
    /\ cache_stats.num_updates = 3

\* C8: in the threaded receive loop the step that handles a datagram that
\* fails to decode leaves the per-camera map, the frames and the statistics
\* as they are and takes the loop back to its head.
C8_BadDecodeSkipped ==
    [][(/\ cache_variant = "threaded"
        /\ recv_pc = "parse"
        /\ datagram.kind = "malformed"
        /\ recv_pc' # recv_pc)
       => (/\ recv_pc' = "head"
           /\ UNCHANGED <<detections, heap, cache_stats, cache_stop>>)]_vars

\* After a datagram that failed to decode the loop has received a datagram
\* that decodes, and the statistics count only that one.
C8_Witness ==
    /\ cache_variant = "threaded"
    /\ malformed_seen = 1
    /\ num_datagrams = 2
    /\ recv_pc = "update"
    /\ cache_stats.num_updates = 1

\* ----------------------------------- claims: multicast receiver with fan-out

\* C7: a datagram that fails to decode does not end the receive loop: after
\* a first frame was delivered to a subscriber and the second datagram was
\* malformed, the loop is still running.
C7_MalformedDoesNotTerminate ==
    (/\ fan_count = 2
     /\ wrapper_packet.kind = "malformed"
     /\ \E c \in DOMAIN channels : channels[c].data = <<1>>)
    => fan_pc # "failed"

\* Channel c is in the registry of its kind after the step.
StaysIn(kind, c) ==
    IF kind = "detection" THEN c \in Range(detection_channels') ELSE c \in Range(geometry_channels')

\* The send task i of the round of a kind ends in this step.
SendEnds(kind, i) ==
    /\ fan_pc = RoundOf(kind)
    /\ i \in DOMAIN send_tasks
    /\ send_tasks[i] \in {"pending", "parked"}
    /\ send_tasks'[i] \in {"ok", "broken"}
    /\ UNCHANGED <<fan_pc, fan_count>>

\* C9: a send to a subscriber whose receive side is closed, and a send
\* waiting on a subscriber that closes, end broken; every other send ends
\* with the frame in the subscriber's buffer or handed to the subscriber; the
\* round's last step removes from the registry exactly the subscribers whose
\* send ended broken, and the loop goes on; a removed subscriber is never in
\* a registry again.
C9_ClosedSubscriberRemoved ==
    [][/\ \A kind \in Kinds : \A i \in 1..MaxChannels :
            SendEnds(kind, i) =>
                LET c == Registry(kind)[i]
                IN IF ~channels'[c].open
                   THEN send_tasks'[i] = "broken"
                   ELSE /\ send_tasks'[i] = "ok"
                        /\ \/ channels'[c].data = Append(channels[c].data, fan_count)
                           \/ /\ channels[c].parked = Some(fan_count)
                              /\ channels[c].data = <<>>
                              /\ channels'[c].data = <<>>
                           \/ /\ channels[c].parked = Some(fan_count)
                              /\ channels'[c].data = Append(Tail(channels[c].data), fan_count)
       /\ \A kind \in Kinds :
            (fan_pc = RoundOf(kind) /\ fan_pc' # fan_pc) =>
                /\ fan_pc' \in {"recv", RoundOf("geometry")}
                /\ \A i \in DOMAIN Registry(kind) :
                     LET c == Registry(kind)[i]
                     IN IF send_tasks[i] = "broken"
                        THEN ~channels[c].open /\ ~StaysIn(kind, c) /\ c \in removed'
                        ELSE send_tasks[i] = "ok" /\ StaysIn(kind, c) /\ c \notin removed'
       /\ \A c \in removed' : /\ c \notin Range(detection_channels')
                             /\ c \notin Range(geometry_channels')
                             /\ ~channels'[c].open
      ]_vars

\* The first subscriber was closed and has been removed, the second is still
\* registered and holds the frames of that round and of the next, which has
\* run to its end too.
C9_Witness ==
    /\ removed = {1}
    /\ detection_channels = <<2>>
    /\ channels[2].open
    /\ channels[2].data = <<1, 2>>
    /\ fan_count = 2
    /\ fan_pc = "recv"

\* The registry of a kind after the step.
RegistryAfter(kind) == IF kind = "detection" THEN detection_channels' ELSE geometry_channels'

\* The subscribers of a registry whose delivery did not end broken, in the
\* registry's order.
RECURSIVE Survivors(_, _)
Survivors(list, tasks) ==
    IF list = <<>> THEN <<>>
    ELSE LET n == Len(list)
             front == Survivors(SubSeq(list, 1, n - 1), SubSeq(tasks, 1, n - 1))
         IN IF tasks[n] = "broken" THEN front ELSE Append(front, list[n])

BlockedOnSlowSubscriber ==
    \E kind \in Kinds :
        /\ fan_pc = RoundOf(kind)
        /\ \A i \in DOMAIN send_tasks : send_tasks[i] # "pending"
        /\ \E i, j \in DOMAIN send_tasks :
              /\ send_tasks[i] = "parked"
              /\ send_tasks[j] = "ok"
              /\ LET ch == channels[Registry(kind)[i]]
                 IN ch.size = 1 /\ Len(ch.data) = 1

\* C10: a subscriber whose bounded queue is full and which does not consume
\* never holds the receive loop up: no round waits for such a subscriber alone.
C10_SlowSubscriberDoesNotBlock == ~BlockedOnSlowSubscriber

\* The frames held for a subscriber, oldest first: the frame its latest
\* receive returned, the buffered frames, the frame of a waiting send.
Held(ch) == <<ch.got>> \o ch.data \o ch.parked

\* C11: per-subscriber FIFO. For every subscriber the frame its latest
\* receive returned, the frames buffered for it and the frame waiting to be
\* buffered are in strictly increasing publish order and are frames published
\* since the channel was opened: a receive never returns a frame out of
\* order or twice.
C11_PerSubscriberFIFO ==
    \A c \in DOMAIN channels :
        LET h == Held(channels[c])
        IN /\ \A i, j \in DOMAIN h : i < j => h[i] < h[j]
           /\ \A i \in DOMAIN h : h[i] <= fan_count

\* A subscriber with an unbounded buffer was sent two frames, has received
\* the first and still holds the second.
C11_Witness ==
    \E c \in DOMAIN channels :
        /\ channels[c].size = Inf
        /\ channels[c].got = 1
        /\ channels[c].data = <<2>>

\* C12: subscriber buffering: when a bounded subscriber's buffer is full a
\* newly published frame is dropped or overwrites the oldest, so no frame is
\* ever held for it beyond its buffer.
C12_FullBufferDropsOrOverwrites ==
    \A c \in DOMAIN channels :
        (channels[c].size = 1 /\ Len(channels[c].data) = 1) => channels[c].parked = None

\* ------------------------------------- claims: Action Dispatcher lifecycle

\* C13 as stated: once run has exited the dispatcher never transmits again.
C13_StoppedNeverTransmits ==
    [][thread_state = "Stopped" => sent' = sent]_vars

\* C13, amended: no packet is transmitted before run() has begun; Stopped is
\* terminal; after run has exited no new tick begins, and a packet
\* transmitted after the exit is the tick that was in progress on a stream
\* call that could not be cancelled.
C13_Lifecycle ==
    [][/\ thread_state' \in {"Idle", "Started"} => sent' = <<>>
       /\ thread_state = "Stopped" => thread_state' = "Stopped"
       /\ thread_state = "Stopped" => ~(gen_pc = "check" /\ gen_pc' = "locked")
       /\ (thread_state = "Stopped" /\ sent' # sent) =>
             (future = "active" /\ stop_event /\ gen_pc = "yield")
      ]_vars

\* The buffer was written, the dispatcher ran and sent a packet with that
\* write, was stopped, and has exited with its generator at its end.
C13_Witness ==
    /\ thread_state = "Stopped"
    /\ Len(sent) = 1
    /\ sent[1].snap.writes >= 1
    /\ stop_event
    /\ gen_pc = "done"

\* C14: a stop() issued at any point after start() makes run exit: the stop
\* signal, once set on a started dispatcher, stays set until run has exited
\* (the wait loop and the generator test it to end).
C14_StopAfterStartNotLost ==
    [][(stop_event /\ thread_state \in {"Started", "Running"}) => stop_event']_vars

\* ------------------------------------- claims: Observation Cache lifecycle

\* A step the threaded receive loop takes by itself, with no datagram arriving.
LoopStepWithoutDatagram == CacheLoopHead \/ CacheParse \/ CacheStats \/ CacheUpdate

\* C15: after stop() the receive loop exits even if no further datagram ever
\* arrives: as long as the stop is set and the loop has not exited, the loop
\* has a step to take that needs no datagram (a blocked receive unblocks).
C15_StopUnblocksReceive ==
    (cache_stop /\ recv_pc \notin {"idle", "stopped"}) => ENABLED LoopStepWithoutDatagram

\* ------------------------------------------------------ claims: statistics

\* C16: every dispatcher tick transmits one packet and adds one to num_sent:
\* between ticks num_sent is the number of packets transmitted, in the
\* threaded client (the generator is at the head of its loop) and in the trio
\* client (run() waits for the next period).
C16_NumSentCountsTransmissions ==
    /\ (variant = "threaded" /\ gen_pc = "check") => stats.num_sent = Len(sent)
    /\ (variant = "trio" /\ trio.run_pc = "period") => trio.stats.num_sent = Len(trio.sent)

\* A timestamp field never goes from a value back to None or to an earlier
\* value.
NotEarlier(before, after) == before = None \/ (after # None /\ before[1] <= after[1])

Seen == IF returned.ref THEN Live(returned.target) ELSE returned.value[1]

\* C18: statistics() returns a snapshot copy. While the caller leaves the
\* value it was given alone, no tick, update, set_action or reset_action
\* changes what the caller sees in it; and nothing the caller writes into it
\* reaches the live statistics, so later statistics() calls never return it.
C18_StatisticsReturnsCopy ==
    [][/\ (returned.target # "none" /\ returned' = returned) => Seen' = Seen
       /\ stats'.num_sent # Tampered
       /\ trio'.stats.num_sent # Tampered
       /\ cache_stats'.num_updates # Tampered]_vars

\* The datagrams (threaded) or channel frames (trio) that decoded.
Decoded == num_datagrams - malformed_seen

\* The receive loop holds a packet it has neither counted nor found malformed.
InHand ==
    IF cache_variant = "threaded" THEN recv_pc \in {"parse", "stats"}
    ELSE recv_pc \in {"acquire", "update"}

\* C19 as stated: num_updates goes up only for a packet that carries a
\* detection frame, and in the step that writes the frame into the map.
C19_CountedWithMapUpdate ==
    [][cache_stats'.num_updates # cache_stats.num_updates
          => (datagram.detection # None /\ heap' # heap)]_vars

\* C19: observation statistics count received packets. num_updates is the
\* number of packets that decoded (threaded: with or without a detection
\* frame; trio: the frames taken from the channel), less the one the loop
\* holds and has not counted yet, whatever the cameras of the frames;
\* last_update_time is set once a packet is counted; the map never holds the
\* frame of a packet that num_updates does not count; after the threaded
\* loop has stopped num_updates is the number of datagrams that decoded.
C19_NumUpdatesCountsDecoded ==
    /\ cache_stats.num_updates = Decoded - (IF InHand THEN 1 ELSE 0)
    /\ (cache_stats.last_update_time # None) <=> (cache_stats.num_updates > 0)
    /\ \A cam \in DOMAIN detections :
           heap[detections[cam]].frame_number = num_datagrams
               => cache_stats.num_updates = Decoded
    /\ recv_pc = "stopped" => cache_stats.num_updates = Decoded

\* The threaded loop has stopped after a malformed datagram, a detection
\* frame and a packet without a detection frame.
C19_Witness ==
    /\ cache_variant = "threaded"
    /\ recv_pc = "stopped"
    /\ malformed_seen = 1
    /\ cache_stats.num_updates = 2
    /\ DOMAIN detections # {}
    /\ datagram.kind = "wrapper"
    /\ datagram.detection = None

\* ------------------------------------------------------ claims: validation

\* C20: set_action validates robot_id >= 0. A call with a negative robot_id
\* is refused at the call: the Command Buffer never holds an entry for a
\* negative robot id, and no packet sent holds a command for one.
C20_NegativeRobotIdRejected ==
    /\ \A i \in DOMAIN actions : actions[i].robot_id >= 0
    /\ \A i \in DOMAIN sent : \A r \in DOMAIN sent[i].message : r >= 0

\* ---------------------------------------------------- claims: wire encoding

\* 127 * v clamped to [-127, 127] and cut to an integer, for v in hundredths:
\* e is the integer part of the clamped product.
IsClampedScale(v, e) ==
    IF v >= 100 THEN e = 127
    ELSE IF v <= -100 THEN e = -127
    ELSE /\ (v >= 0 => (e >= 0 /\ 100 * e <= 127 * v /\ 127 * v < 100 * (e + 1)))
         /\ (v < 0 => (e <= 0 /\ 100 * e >= 127 * v /\ 127 * v > 100 * (e - 1)))

\* C21: wire encoding of a wheel velocity. For every velocity component,
\* inside or outside [-1, 1], set_action stores the value as given and the
\* value put on the wire is 127 * v clamped to [-127, 127], an integer in
\* [-127, 127]: it never wraps around as an 8-bit overflow.
C21_WireEncodingClamps ==
    /\ wheel.stored # None => wheel.stored = wheel.v
    /\ wheel.wire # None =>
          /\ wheel.wire[1] \in (-127)..127
          /\ IsClampedScale(wheel.v[1], wheel.wire[1])

\* A velocity of 1.5, whose product 190 does not fit 8 bits, is on the wire.
C21_Witness == wheel.v = Some(150) /\ wheel.stored = Some(150) /\ wheel.wire = Some(127)

\* ---------------------------------------------------- claims: send failures

\* C22: a transient send failure on one tick does not end the run loop: the
\* trio run() has not been left by the exception, and the threaded run()
\* has not returned unless stop() was called.
C22_TransientFailureKeepsRunning ==
    send_failure = "transient" =>
        /\ variant = "trio" => trio.run_pc # "raised"
        /\ (variant = "threaded" /\ ~stop_event) => thread_state # "Stopped"

\* ---------------------------------------------------- claims: environment

\* The frame of camera i lists, for the configured team, a robot with the
\* configured id.
ControlledRobotSeen(f, i) ==
    /\ i \in DOMAIN f.raw_detections
    /\ LET ids == IF f.team = "BLUE" THEN f.raw_detections[i].robots_blue
                  ELSE f.raw_detections[i].robots_yellow
       IN \E k \in DOMAIN ids : ids[k] = f.robot_id

\* The poses at which the frame of camera i lists the controlled robot.
ControlledRobotPoses(f, i) ==
    LET ids == IF f.team = "BLUE" THEN f.raw_detections[i].robots_blue
               ELSE f.raw_detections[i].robots_yellow
    IN {DetectedPose(f.team, k) : k \in {j \in DOMAIN ids : ids[j] = f.robot_id}}

\* C23: environment state construction. The state has exactly 2*num_cameras
\* keys; for each camera i below num_cameras, cam_i_detected is 1 and cam_i
\* is a pose of the controlled robot iff the map has a frame for camera i
\* listing a robot of the configured team with the configured id; otherwise
\* cam_i_detected is 0 and cam_i is the zero pose.
C23_StateFromDetections ==
    filtering.state # None =>
        LET f == filtering
            state == f.state[1]
        IN /\ Cardinality(DOMAIN state) = 2 * f.num_cameras
           /\ \A i \in 0..(f.num_cameras - 1) :
                /\ <<"cam", i>> \in DOMAIN state
                /\ <<"cam_detected", i>> \in DOMAIN state
                /\ IF ControlledRobotSeen(f, i)
                   THEN /\ state[<<"cam_detected", i>>] = <<1>>
                        /\ state[<<"cam", i>>][1] \in ControlledRobotPoses(f, i)
                   ELSE /\ state[<<"cam_detected", i>>] = <<0>>
                        /\ state[<<"cam", i>>] = <<ZeroPose>>

\* Camera 0 shows the controlled blue robot 0 next to blue robot 1 and a
\* yellow robot 0, camera 1 shows only a yellow robot 0, camera 2 has no frame.
C23_Witness ==
    /\ filtering.state # None
    /\ filtering.robot_id = 0
    /\ filtering.team = "BLUE"
    /\ filtering.num_cameras = 3
    /\ DOMAIN filtering.raw_detections = {0, 1}
    /\ filtering.raw_detections[0] = [robots_blue |-> <<1, 0>>, robots_yellow |-> <<0>>]
    /\ filtering.raw_detections[1] = [robots_blue |-> <<>>, robots_yellow |-> <<0>>]
    /\ filtering.state[1][<<"cam", 0>>] = <<DetectedPose("BLUE", 2)>>
    /\ filtering.state[1][<<"cam_detected", 1>>] = <<0>>

\* C24: reset() and step() called while the receiver or the dispatcher is
\* not alive raise RuntimeError and have no side effect: no reset_action or
\* set_action call, no cache read, curr_state unchanged.
C24_NotRunningRaises ==
    [][(env'.calls = env.calls + 1 /\ ~(env.vision_alive /\ env.action_alive))
          => /\ env'.raised = env.raised + 1
             /\ env'.reset_action_calls = env.reset_action_calls
             /\ env'.set_action_calls = env.set_action_calls
             /\ env'.reads = env.reads
             /\ env'.curr_state = env.curr_state]_vars

\* C25: environment parameter validation. The constructor raises exactly
\* when robot_id < 0, num_cameras < 1, field_width <= 0 or field_length <= 0;
\* an assignment to a property raises exactly for such a value and then
\* leaves every property and the observation space as they were; an object
\* that exists always has robot_id >= 0, num_cameras >= 1, field_width > 0
\* and field_length > 0, and its observation space is the one of its
\* num_cameras, field_width and field_length.
C25_ParametersValidated ==
    /\ params.status = "raised" =>
          (params.args[1] < 0 \/ params.args[2] < 1 \/ params.args[3] <= 0 \/ params.args[4] <= 0)
    /\ params.status = "constructed" =>
          /\ params.args[1] >= 0 /\ params.args[2] >= 1 /\ params.args[3] > 0 /\ params.args[4] > 0
          /\ params.robot_id >= 0
          /\ params.num_cameras >= 1
          /\ params.field_width > 0
          /\ params.field_length > 0
          /\ DOMAIN params.observation_space = 0..(params.num_cameras - 1)
          /\ \A cam \in DOMAIN params.observation_space :
                params.observation_space[cam] =
                    [width |-> params.field_width, length |-> params.field_length]
          /\ params.last # None =>
                LET last == params.last[1]
                    bad == \/ (last.prop = "robot_id" /\ last.value < 0)
                           \/ (last.prop = "num_cameras" /\ last.value < 1)
                           \/ (last.prop \in {"field_width", "field_length"} /\ last.value <= 0)
                IN /\ last.raised <=> bad
                   /\ last.raised => Snapshot(params) = params.before[1]
                   /\ ~last.raised => params[last.prop] = last.value

\* An accepted assignment of num_cameras was followed by a rejected
\* assignment of field_width = 0.
C25_Witness ==
    /\ params.status = "constructed"
    /\ params.assignments = 2
    /\ params.args[2] = 1
    /\ params.num_cameras = 2
    /\ params.last = Some([prop |-> "field_width", value |-> 0, raised |-> TRUE])

\* ------------------------------------------------- claims: network and locks

\* C26: buffer accessors never wait on network I/O: while the dispatcher's
\* per-tick send is in progress the lock that set_action and reset_action
\* need is not held, in the threaded client (the generator has yielded the
\* message to the stream) and in the trio client (run() is inside
\* send_message).
C26_NoLockHeldAcrossSend ==
    /\ (variant = "threaded" /\ gen_pc = "yield") => actions_lock # "generator"
    /\ (variant = "trio" /\ trio.run_pc = "sending") => trio.lock # "run"

\* ------------------------------------------------- claims: field geometry

\* C27: field geometry accessors have copy semantics. Whenever no set is
\* copying, the stored geometry is the one of the latest completed set, as
\* it was at the call, whatever the caller wrote into g or into a returned
\* value since; and a get returns the geometry stored when it took the lock,
\* whole: the latest set's or the default, never a mix.
C27_GeometryCopySemantics ==
    geom.variant # "none" =>
        /\ geom.set_pc = "idle" => geom.heap["internal"] = geom.last_set
        /\ geom.get_pc = "done" => geom.got = geom.expected
        /\ geom.got \in Geometries \cup {DefaultGeometry}

\* A get returned <<1, 1>> after set(<<1, 1>>); the caller then scribbled on
\* the returned object and on g, and the stored geometry is still <<1, 1>>.
C27_Witness ==
    /\ geom.variant = "visualizer"
    /\ geom.got = <<1, 1>>
    /\ geom.heap["r"] = Scribble
    /\ geom.heap["g"] = Scribble
    /\ geom.heap["internal"] = <<1, 1>>
    /\ geom.get_pc = "done"

\* C28: the ball filter's friction input. After each predict the control
\* input on each axis is sign(deadzone(velocity, eps)) * (-friction_decel)
\* for the velocity the filter held when predict was called: 0 when
\* |velocity| < eps, else of magnitude friction_decel and of sign opposite
\* to the velocity; and the constructor raises exactly when
\* friction_decel < 0.
C28_FrictionOpposesVelocity ==
    /\ ball.status = "raised" <=> (ball.status # "none" /\ ball.friction_decel < 0)
    /\ (ball.status = "constructed" /\ ball.predicts > 0) =>
           \A axis \in {1, 2} :
               LET velocity == ball.before[2 * axis]
               IN /\ ball.u[axis] = Sign(apply_deadzone(velocity, ball.friction_deadzone))
                                        * (-ball.friction_decel)
                  /\ Abs(velocity) < ball.friction_deadzone => ball.u[axis] = 0
                  /\ Abs(velocity) >= ball.friction_deadzone =>
                         /\ Abs(ball.u[axis]) = ball.friction_decel
                         /\ ball.u[axis] * velocity <= 0

\* C29: the robot filter's angle-aware residual and mean. For all angles
\* a, b the theta component of _residual_x and _residual_z is a - b wrapped
\* into [-180, 180] degrees, congruent to a - b modulo 360; for 179 and -179
\* degrees the residual has magnitude 2, and the angle-aware mean of the two
\* is 180 degrees, not 0.
C29_AngleAwareResidualAndMean ==
    /\ (robot.status # "none" /\ robot.op \in {"_residual_x", "_residual_z"}) =>
           /\ robot.result[2] \in (-HalfTurn)..HalfTurn
           /\ (robot.result[2] - (robot.a[2] - robot.b[2])) % FullTurn = 0
           /\ ({robot.a[2], robot.b[2]} = {179, -179}) => Abs(robot.result[2]) = 2
    /\ (/\ robot.status # "none"
        /\ robot.op \in {"_x_mean_fn", "_z_mean_fn"}
        /\ {robot.a[2], robot.b[2]} = {179, -179}) =>
           /\ robot.raised = "none"
           /\ robot.result[2] = HalfTurn

\* ------------------------------------------------- claims: kind routing

\* A send of the round in progress hands its frame to channel c in this step.
HandedTo(c) ==
    /\ c \in DOMAIN channels
    /\ channels[c].open
    /\ channels'[c].open
    /\ \/ Len(channels'[c].data) > Len(channels[c].data)
       \/ channels[c].parked = None /\ channels'[c].parked # None

\* C31: kind routing. A wrapper packet's detection is handed to every
\* subscriber in the detection registry and to no geometry subscriber, its
\* geometry to every subscriber in the geometry registry and to no detection
\* subscriber; a packet with neither is handed to nobody, a packet with both
\* to both groups: a round of a kind runs exactly when the packet has that
\* payload, every send of the round goes to a subscriber of that kind with
\* that payload, and the round ends only when every subscriber of the
\* registry had its send (delivered, or broken because it had closed).
C31_KindRouting ==
    [][/\ \A c \in DOMAIN channels :
            HandedTo(c) =>
                /\ fan_pc = RoundOf(channels[c].kind)
                /\ wrapper_packet[channels[c].kind]
                /\ \E i \in DOMAIN Registry(channels[c].kind) :
                       Registry(channels[c].kind)[i] = c
       /\ \A c \in DOMAIN channels' : channels'[c].payloads \subseteq {channels'[c].kind}
       /\ fan_count' = fan_count + 1 =>
            IF wrapper_packet'.kind = "malformed" THEN fan_pc' = "failed"
            ELSE IF wrapper_packet'.detection THEN fan_pc' = RoundOf("detection")
            ELSE IF wrapper_packet'.geometry THEN fan_pc' = RoundOf("geometry")
            ELSE fan_pc' = "recv"
       /\ (fan_pc = RoundOf("detection") /\ fan_pc' # fan_pc) =>
            fan_pc' = IF wrapper_packet.geometry THEN RoundOf("geometry") ELSE "recv"
       /\ (fan_pc = RoundOf("geometry") /\ fan_pc' # fan_pc) => fan_pc' = "recv"
       /\ \A kind \in Kinds :
            (fan_pc = RoundOf(kind) /\ fan_pc' # fan_pc) =>
                /\ wrapper_packet[kind]
                /\ DOMAIN send_tasks = DOMAIN Registry(kind)
                /\ \A i \in DOMAIN Registry(kind) :
                     LET ch == channels[Registry(kind)[i]]
                     IN /\ send_tasks[i] \in {"ok", "broken"}
                        /\ (send_tasks[i] = "ok" /\ ch.open) => ch.payloads = {kind}
                        /\ send_tasks[i] = "broken" => ~ch.open
      ]_vars

\* A packet with a detection and geometry was received with one subscriber
\* of each kind: both rounds have run, and each subscriber holds the frame
\* with the payload of its kind.
C31_Witness ==
    /\ fan_count = 1
    /\ fan_pc = "recv"
    /\ wrapper_packet.detection /\ wrapper_packet.geometry
    /\ detection_channels = <<1>>
    /\ geometry_channels = <<2>>
    /\ channels[1].data = <<1>> /\ channels[1].payloads = {"detection"}
    /\ channels[2].data = <<1>> /\ channels[2].payloads = {"geometry"}

\* ------------------------------------------------- claims: environment protocol

\* The entries of the latest call's log that name an operation.
CallsOf(op) == {i \in DOMAIN env.log : env.log[i][1] = op}

\* C32: the step/reset protocol while running. reset() calls reset_action
\* exactly once and then reads the cache exactly once; step(a) calls
\* set_action exactly once, with the configured robot_id and a copy of a,
\* before it reads the cache exactly once; the reward and the terminal
\* function are evaluated on (the state the previous reset/step stored, a,
\* the newly built state); afterwards curr_state is the returned state.
C32_StepResetProtocol ==
    [][(env'.calls = env.calls + 1 /\ is_running(env)) =>
          LET log == env'.log
              ops == [i \in DOMAIN log |-> log[i][1]]
              new == env'.returned[1]
          IN /\ env'.returned # None
             /\ env'.curr_state = env'.returned
             /\ env'.reads = env.reads + 1
             /\ IF env'.last_call[1] = "reset"
                THEN /\ ops = <<"reset_action", "get_latest">>
                     /\ env'.reset_action_calls = env.reset_action_calls + 1
                     /\ env'.set_action_calls = env.set_action_calls
                ELSE /\ SubSeq(ops, 1, 2) = <<"set_action", "get_latest">>
                     /\ \A i \in DOMAIN ops : i > 2 => ops[i] \notin {"set_action", "get_latest"}
                     /\ log[1] = <<"set_action", env.robot_id, env'.last_call[2], "copy">>
                     /\ \E i \in DOMAIN log : log[i][1] = "reward_func"
                     /\ \E i \in DOMAIN log : log[i][1] = "is_terminal_func"
                     /\ \A i \in DOMAIN log :
                          log[i][1] \in {"reward_func", "is_terminal_func"} =>
                              log[i][2] = <<env.curr_state, env'.last_call[2], new>>
                     /\ env'.set_action_calls = env.set_action_calls + 1
                     /\ env'.reset_action_calls = env.reset_action_calls
      ]_vars

\* A step on a running environment after a reset that saw the robot: the
\* reward was evaluated on the reset's state, the action and the new state,
\* which differs from the reset's.
C32_Witness ==
    /\ is_running(env)
    /\ env.calls = 2
    /\ env.last_call = <<"step", "a2">>
    /\ env.set_action_calls = 1
    /\ env.reset_action_calls = 1
    /\ env.reads = 2
    /\ Len(env.log) = 4
    /\ env.log[3][2][1] # env.curr_state
    /\ env.log[3][2][1] # None
    /\ env.log[3][2][3] = env.curr_state[1]

\* C33: the threaded environment's lifecycle. After any sequence of
\* start(), close() and ends of the single components, is_running is true
\* iff both components are alive; start() starts the components that were
\* not alive, and only those, so that the environment is running after it,
\* also after a close(); close() leaves both components not alive and joins
\* exactly those that were alive (none on an environment never started).
C33_Lifecycle ==
    env.variant = "threaded" =>
        /\ is_running(env) <=> Alive(env) = Components
        /\ env.life.op = "start" =>
               /\ ~env.life.raised
               /\ env.life.acted = Components \ env.life.alive_before
               /\ is_running(env)
        /\ env.life.op = "close" =>
               /\ Alive(env) = {}
               /\ env.life.acted = env.life.alive_before

\* ------------------------------------------------- claims: trio cache run loop

\* The latest frame of each camera in a sequence of frames.
RECURSIVE LatestPerCamera(_)
LatestPerCamera(frames) ==
    IF frames = <<>> THEN <<>>
    ELSE LET f == frames[Len(frames)]
         IN (f.camera_id :> f) @@ LatestPerCamera(SubSeq(frames, 1, Len(frames) - 1))

\* What run() has done so far is what the frames it stored make of an empty cache.
FeedConsistent ==
    /\ feed.stats.num_updates = Len(feed.applied)
    /\ feed.detections = LatestPerCamera(feed.applied)
    /\ feed.recv = "open" => feed.applied \o feed.in_hand \o feed.buffer = feed.sent

\* C34: the trio cache's run loop. run() on a receive channel that is
\* already closed fails with ClosedResourceError and leaves the cache and
\* its statistics unchanged; once every sender has closed, run() stores every
\* frame still buffered, in order, counting each in num_updates, and then
\* returns.
C34_RunUntilChannelEnds ==
    /\ [](feed.run_pc # "none" =>
            /\ FeedConsistent
            /\ feed.run_pc = "ClosedResourceError" =>
                   /\ feed.detections = <<>>
                   /\ feed.stats = [num_updates |-> 0, last_update_time |-> None]
            /\ feed.run_pc = "done" =>
                   /\ feed.senders = "closed"
                   /\ feed.applied = feed.sent
                   /\ feed.stats.num_updates = Len(feed.sent))
    /\ (feed.run_pc \in {"loop", "locked"} /\ feed.senders = "closed") ~> (feed.run_pc = "done")

\* Three frames were buffered when the senders closed, two of them for one
\* camera; run() has stored all three and returned.
C34_Witness ==
    /\ feed.run_pc = "done"
    /\ Len(feed.sent) = 3
    /\ feed.sent[1].camera_id = feed.sent[3].camera_id
    /\ feed.sent[2].camera_id # feed.sent[1].camera_id
    /\ feed.stats.num_updates = 3
    /\ feed.detections[feed.sent[1].camera_id] = feed.sent[3]

\* ------------------------------------------------- claims: trio dispatcher periodic run

\* C35: the trio dispatcher's periodic send and re-run. A run sends its
\* first packet at the time it starts and then one per period, none late,
\* each the buffer as last set; a cancelled run has closed its stream
\* exactly once, a run in progress has not closed it; the client runs again
\* on a new stream and sends the buffer as it then is (empty after
\* reset_action, else what it held when the earlier run ended), at the same
\* period.
C35_PeriodicSendAndRerun ==
    [][periodic'.run_pc # "none" =>
         /\ \A r \in DOMAIN periodic'.streams :
              LET st == periodic'.streams[r]
                  running == r = Len(periodic'.streams) /\ periodic'.run_pc = "loop"
              IN /\ \A k \in DOMAIN st.sent :
                        st.sent[k].time = st.opened + (k - 1) * periodic'.period
                 /\ st.closed = IF running THEN 0 ELSE 1
                 /\ running => /\ periodic'.next_tick = st.opened + Len(st.sent) * periodic'.period
                               /\ periodic'.next_tick >= periodic'.now
         /\ periodic'.action_message = periodic'.last_set
         /\ \A r \in DOMAIN periodic.streams :
              /\ Len(periodic'.streams[r].sent) > Len(periodic.streams[r].sent) =>
                    /\ r = Len(periodic.streams)
                    /\ periodic'.streams[r].sent =
                           Append(periodic.streams[r].sent,
                                  [time |-> periodic.now, message |-> periodic.last_set])
              /\ Len(periodic'.streams[r].sent) >= Len(periodic.streams[r].sent)
         /\ Len(periodic'.streams) > Len(periodic.streams) =>
              periodic'.action_message = periodic.action_message
      ]_vars

\* The first run sent a set action twice, a period apart, and was
\* cancelled; after a reset_action the second run has sent the empty buffer
\* on its own stream at the time it started.
C35_Witness ==
    /\ periodic.run_pc = "loop"
    /\ periodic.period = 2
    /\ Len(periodic.streams) = 2
    /\ periodic.streams[1].closed = 1
    /\ Len(periodic.streams[1].sent) = 2
    /\ periodic.streams[1].sent[1].message # EmptyMessage
    /\ periodic.streams[1].sent[2] = [time |-> 2, message |-> periodic.streams[1].sent[1].message]
    /\ periodic.streams[2].opened = 3
    /\ periodic.streams[2].sent = <<[time |-> 3, message |-> EmptyMessage]>>

\* The frame objects the threaded reads have handed out so far.
HandedOut ==
    UNION {{reads[i].objects[cam] : cam \in DOMAIN reads[i].objects} : i \in DOMAIN reads} \ {0}

\* C36: a frame object returned by the threaded get_latest is written by no
\* later step: every step leaves the content of every object handed out so
\* far as it is, and an update for a camera whose slot was handed out goes
\* into an object that did not exist before the step.
C36_ReturnedFramesNotModified ==
    [][ cache_variant = "threaded" =>
          /\ \A obj \in HandedOut : heap'[obj] = heap[obj]
          /\ \A cam \in DOMAIN detections' :
                (cam \notin DOMAIN detections \/ detections'[cam] # detections[cam]) =>
                    /\ detections'[cam] \notin DOMAIN heap
                    /\ detections'[cam] \notin HandedOut
      ]_vars

\* A read returned the stored object of camera 1, and a later update for
\* camera 1 went into a second object while the first kept its content.
C36_Witness ==
    /\ cache_variant = "threaded"
    /\ Len(reads) = 1
    /\ 1 \in DOMAIN reads[1].objects
    /\ reads[1].objects[1] = 1
    /\ 1 \in DOMAIN detections
    /\ detections[1] = 2
    /\ heap[2].frame_number > heap[1].frame_number
    /\ heap[1] = reads[1].result[1]

\* C37: the Command Buffer is isolated from the references its callers hold.
\* What a tick transmits and what current_action returns is the buffer as
\* set_action and reset_action left it, by value, whatever the callers have
\* written since into the action objects they passed in or into the maps
\* they got back.
C37_BufferIsolated ==
    buffer.pc = "ready" =>
        /\ \A i \in DOMAIN buffer.sent : buffer.sent[i].message = Encode(buffer.sent[i].stored)
        /\ \A g \in DOMAIN buffer.got : buffer.got[g].returned = buffer.got[g].stored

\* A thread in an operation can take its next step.
CanStep(t) ==
    /\ locks.op[t] # "idle"
    /\ LET step == LockSteps(locks.op[t])[locks.pc[t]]
       IN step.do = "acquire" => locks.holder[step.lock] = "free"

\* C38: the lock discipline of the threaded dispatcher and cache. No thread
\* holds the buffer / cache lock and the statistics lock at the same time; a
\* thread that is in no operation, whether its last one returned or raised,
\* holds no lock; and whenever some thread is inside an operation, some
\* thread can take its next step.
C38_LockDiscipline ==
    locks.component # "none" =>
        /\ \A t \in LockThreads : Cardinality(HeldBy(t)) <= 1
        /\ \A t \in LockThreads : locks.op[t] = "idle" => HeldBy(t) = {}
        /\ (\E t \in LockThreads : locks.op[t] # "idle") => \E t \in LockThreads : CanStep(t)

\* The dispatcher's tick ended with an exception inside a with block; after
\* it one caller holds the buffer lock in set_action, the other holds the
\* statistics lock, in the second operation of the first.
C38_Witness ==
    /\ locks.component = "dispatcher"
    /\ "loop" \in locks.raised
    /\ locks.holder = [data |-> "c1", stats |-> "c2"]
    /\ locks.op["c1"] = "set_action"
    /\ locks.calls["c1"] = 2

\* The frames channel c holds or has last handed to its subscriber.
FramesOf(c) ==
    Range(channels[c].data)
    \cup (IF channels[c].parked # None THEN {channels[c].parked[1]} ELSE {})
    \cup ({channels[c].got} \ {0})

\* The channels a registry lists.
Registered(kind) == Range(Registry(kind))

\* C39: subscription against a publish round in progress. While a round of
\* a kind is in progress its registry gains no entry; a channel whose create
\* call waits for the lock holds no frame; a channel gains a frame only in a
\* round of its kind, the frame of that round, as a channel the registry
\* lists; when a round of a kind starts, every channel of that kind created
\* so far and not deleted is in it; and a step that creates or registers a
\* channel appends it to the registry of its kind and leaves the other
\* channels and the sends in progress as they are.
C39_SubscribeDuringRound ==
    [][ /\ \A kind \in Kinds :
            /\ fan_pc = RoundOf(kind) => Registered(kind)' \subseteq Registered(kind)
            /\ \A c \in Waiting(kind) : FramesOf(c) = {} /\ channels[c].payloads = {}
            /\ (fan_pc # RoundOf(kind) /\ fan_pc' = RoundOf(kind)) =>
                  /\ Waiting(kind)' = {}
                  /\ DOMAIN send_tasks' = DOMAIN Registry(kind)'
        /\ \A c \in DOMAIN channels :
              (FramesOf(c)' \ FramesOf(c) # {}) =>
                  /\ fan_pc = RoundOf(channels[c].kind)
                  /\ c \in Registered(channels[c].kind)
                  /\ FramesOf(c)' \ FramesOf(c) = {fan_count}
        /\ \A kind \in Kinds :
              (Registered(kind)' \ Registered(kind) # {}) =>
                  /\ \E c \in DOMAIN channels' :
                        /\ channels'[c].kind = kind
                        /\ Registry(kind)' = Append(Registry(kind), c)
                  /\ \A c \in DOMAIN channels : channels'[c] = channels[c]
                  /\ send_tasks' = send_tasks
                  /\ fan_pc' = fan_pc
      ]_vars

\* A detection channel whose create call waited for the lock during the
\* round of the first detection has been sent the second detection only
\* and has taken nothing out, next to an earlier channel that holds both in
\* the order they were published.
C39_Witness ==
    /\ fan_count = 2
    /\ detection_channels = <<1, 2>>
    /\ channels[2].kind = "detection"
    /\ channels[2].waited
    /\ channels[1].data = <<1, 2>>
    /\ channels[2].data = <<2>>
    /\ channels[2].got = 0
    /\ fan_pc = "recv"

\* The command stream call has completed, closed or failed, with no stop()
\* since run() began.
EndedByItself == future \in {"done", "failed"} /\ ~stop_event

\* C40: when the command stream call completes on its own, without stop(),
\* the dispatcher's run() exits and the thread ends; the thread never lives
\* again, the environment is not running from then on, and every reset() and
\* step() after that raises RuntimeError, sets and resets no action, reads
\* no observation and leaves the current state as it is.
C40_StreamEndStopsEnvironment ==
    /\ (EndedByItself /\ thread_state = "Running") ~> (thread_state = "Stopped")
    /\ [][ (EndedByItself /\ thread_state = "Stopped") =>
              /\ ~is_running(env)
              /\ thread_state' = "Stopped"
              /\ env'.calls > env.calls =>
                    /\ env'.raised = env.raised + 1
                    /\ env'.returned = None
                    /\ env'.log = <<>>
                    /\ env'.set_action_calls = env.set_action_calls
                    /\ env'.reset_action_calls = env.reset_action_calls
                    /\ env'.reads = env.reads
                    /\ env'.curr_state = env.curr_state
       ]_vars

\* The stream failed with no stop() called and run() has returned; a step
\* before that set an action and read the cache, a step after it raised.
C40_Witness ==
    /\ env.variant = "attached"
    /\ EndedByItself
    /\ future = "failed"
    /\ thread_state = "Stopped"
    /\ env.set_action_calls = 1
    /\ env.reads = 1
    /\ env.raised = 1
    /\ env.calls = 2
    /\ env.last_call[1] = "step"

====
